---- MODULE Spec2Model ----
(***************************************************************************)
(* A model of one compilation of @dataform/core: the build phase registers *)
(* actions in the Session (publish / operate / assert / declare /         *)
(* notebook), then Session.compile links them: the contextable queries    *)
(* are evaluated, dependencies are fully qualified, non-unique targets    *)
(* are reported and dependency cycles are reported.                       *)
(***************************************************************************)
EXTENDS Integers, Sequences, FiniteSets, TLC

VARIABLES
    projectDir,      \* the settings files of the project and the compile request's override
    thrown,          \* the message of the error main threw, "" while it has thrown none
    projectConfig,   \* session.projectConfig (settings file merged with overrides)
    definitions,     \* the action configs of the project, in the order they were read
    actions,         \* session.actions: the action builders, in registration order
    graphErrors,     \* session.graphErrors.compilationErrors, in the order raised
    phase,           \* "build", then the passes of Session.compile, then "done"
    compiledGraph    \* the compiled action protos of the returned graph

vars == <<projectDir, thrown, projectConfig, definitions, actions, graphErrors, phase,
          compiledGraph>>

----------------------------------------------------------------------------
(* Bounds of the model *)

\* how many actions the build phase registers by explicit calls
MaxActions == 3
\* how many dependency sites (declared or inline) one action may carry
MaxSites == 2
\* how many characters the SQL text of an action may have
MaxSqlLength == 3
\* how many unique-key groups the assertions shorthand of an action may list
MaxUniqueKeys == 2
\* how many cells a notebook file has
MaxCells == 2
\* how many strings and other pieces the SQL body of a file is made of
MaxPieces == 2
MaxCalls == 2

----------------------------------------------------------------------------
(* Sequences helpers *)

Range(s) == {s[i] : i \in 1..Len(s)}

----------------------------------------------------------------------------
(* Project configuration and targets *)

\* the settings of VALID_WORKFLOW_SETTINGS_YAML with the three environment
\* transforms of TestConfigs; "" is an option that is not set
WorkflowSettings(projectSuffix, datasetSuffix, namePrefix) ==
    [defaultDatabase |-> "defaultProject",
     defaultSchema   |-> "defaultDataset",
     projectSuffix   |-> projectSuffix,
     datasetSuffix   |-> datasetSuffix,
     namePrefix      |-> namePrefix,
     defaultLocation |-> "US",
     vars            |-> <<>>]

ProjectConfigs ==
    {WorkflowSettings(ps, ds, np) :
        ps \in {"", "suffix"}, ds \in {"", "suffix"}, np \in {"", "prefix"}}

\* session.canonicalProjectConfig: the defaults with no suffix and no prefix
canonicalProjectConfig(config) ==
    [defaultDatabase |-> config.defaultDatabase,
     defaultSchema   |-> config.defaultSchema,
     projectSuffix   |-> "",
     datasetSuffix   |-> "",
     namePrefix      |-> ""]

\* actionConfigToCompiledGraphTarget: the target as the action config gives it
\* ("" where the config leaves database or schema out)
actionConfigToCompiledGraphTarget(config) ==
    [database |-> config.database, schema |-> config.schema, name |-> config.name]

\* ActionBuilder.applySessionToTarget: explicit database/schema are kept as
\* given; a default is suffixed when a suffix is configured; the name is
\* prefixed unless the action is a declaration
applySessionToTarget(targetFromConfig, config, kind) ==
    [database |-> IF targetFromConfig.database /= "" THEN targetFromConfig.database
                  ELSE IF config.projectSuffix /= ""
                  THEN config.defaultDatabase \o "_" \o config.projectSuffix
                  ELSE config.defaultDatabase,
     schema   |-> IF targetFromConfig.schema /= "" THEN targetFromConfig.schema
                  ELSE IF config.datasetSuffix /= ""
                  THEN config.defaultSchema \o "_" \o config.datasetSuffix
                  ELSE config.defaultSchema,
     name     |-> IF config.namePrefix /= "" /\ kind /= "declaration"
                  THEN config.namePrefix \o "_" \o targetFromConfig.name
                  ELSE targetFromConfig.name]

\* targetAsReadableString: database.schema.name, leaving out what is not set
targetAsReadableString(target) ==
    (IF target.database /= "" THEN target.database \o "." ELSE "")
        \o (IF target.schema /= "" THEN target.schema \o "." ELSE "")
        \o target.name

\* the candidate suggestion of an ambiguity message: schema.name
schemaAndName(target) == target.schema \o "." \o target.name

NoTarget == [database |-> "", schema |-> "", name |-> ""]


----------------------------------------------------------------------------
(* Resolvables and the action builders *)

\* a Resolvable as written at a dependency site: a name, optionally qualified,
\* with the tri-state includeDependentAssertions ("unset" | "true" | "false")
Resolvable(database, schema, name, flag) ==
    [database |-> database, schema |-> schema, name |-> name,
     includeDependentAssertions |-> flag]

\* JSON.stringify of the fields a reference or a dependency target gives
quoted(string) == "\"" \o string \o "\""

qualifierFields(target) ==
    (IF target.database /= "" THEN "\"database\":" \o quoted(target.database) \o ","
     ELSE "")
    \o (IF target.schema /= "" THEN "\"schema\":" \o quoted(target.schema) \o ","
        ELSE "")

\* utils.stringifyResolvable of a reference as written: a bare name is a
\* string, anything else an object
stringifyResolvable(resolvable) ==
    IF resolvable.database = "" /\ resolvable.schema = ""
          /\ resolvable.includeDependentAssertions = "unset"
    THEN quoted(resolvable.name)
    ELSE "{" \o qualifierFields(resolvable) \o "\"name\":" \o quoted(resolvable.name)
             \o (IF resolvable.includeDependentAssertions = "unset" THEN ""
                 ELSE ",\"includeDependentAssertions\":"
                          \o resolvable.includeDependentAssertions)
             \o "}"

\* utils.stringifyResolvable of a dependency target, whose flag is filled in
stringifyDependency(dependency) ==
    "{" \o qualifierFields(dependency) \o "\"name\":" \o quoted(dependency.name)
        \o ",\"includeDependentAssertions\":"
        \o (IF dependency.includeDependentAssertions THEN "true" ELSE "false")
        \o "}"

\* what tells the dependencies of one action apart: the reference without
\* its flag
dependencyKey(resolvable) == targetAsReadableString(resolvable)

\* the outcome of checkAssertionsForDependency when the site is refused
NoDependency == [database |-> "", schema |-> "", name |-> "",
                 includeDependentAssertions |-> FALSE]

\* the flag a site contributes: its own when set, else the action's
\* dependOnDependencyAssertions
effectiveFlag(action, resolvable) ==
    IF resolvable.includeDependentAssertions = "unset"
    THEN action.dependOnDependencyAssertions
    ELSE resolvable.includeDependentAssertions = "true"

conflictError(action, resolvable) ==
    [message    |-> "Conflicting includeDependentAssertions",
     action     |-> targetAsReadableString(action.target),
     dependency |-> resolvable.name,
     detail     |-> "Dependency " \o resolvable.name
                      \o " has different values set for this property."]

\* checkAssertionsForDependency(action, resolvable): fills the flag in, and
\* refuses the site with a compile error when an earlier site of the same
\* action set the flag explicitly to the other value.  The result holds the
\* action (its record of explicit flags updated), the dependency target to
\* push (NoDependency when refused) and the errors raised.
checkAssertionsForDependency(action, resolvable) ==
    LET key      == dependencyKey(resolvable)
        seen     == action.includeAssertionsForDependency
        explicit == resolvable.includeDependentAssertions /= "unset"
        known    == key \in DOMAIN seen
        conflict == explicit /\ known
                      /\ seen[key] /= resolvable.includeDependentAssertions
        report   == conflict /\ seen[key] /= "conflict"
        seen2    == IF ~explicit THEN seen
                    ELSE [k \in DOMAIN seen \cup {key} |->
                            IF k = key
                            THEN (IF conflict THEN "conflict"
                                  ELSE resolvable.includeDependentAssertions)
                            ELSE seen[k]]
    IN [action |-> [action EXCEPT !.includeAssertionsForDependency = seen2],
        dependencyTarget |->
            IF conflict THEN NoDependency
            ELSE [database |-> resolvable.database,
                  schema   |-> resolvable.schema,
                  name     |-> resolvable.name,
                  includeDependentAssertions |-> effectiveFlag(action, resolvable)],
        errors |-> IF report THEN <<conflictError(action, resolvable)>> ELSE <<>>]

RECURSIVE dependencies_AsWritten(_, _)
\* a variant that pushes each resolvable with the flag it was written with
dependencies_AsWritten(state, value) ==
    IF Len(value) = 0 THEN state
    ELSE LET checked == checkAssertionsForDependency(state.action, value[1])
             pushed  == IF checked.dependencyTarget /= NoDependency
                        THEN [checked.action EXCEPT !.dependencyTargets =
                                 Append(@, [checked.dependencyTarget EXCEPT
                                     !.includeDependentAssertions =
                                         value[1].includeDependentAssertions = "true"])]
                        ELSE checked.action
         IN dependencies_AsWritten([action |-> pushed,
                                    errors |-> state.errors \o checked.errors],
                                   Tail(value))

\* a variant that takes only the first resolvable of an array
dependencies_FirstOnly(state, value) ==
    IF Len(value) = 0 THEN state
    ELSE LET checked == checkAssertionsForDependency(state.action, value[1])
             pushed  == IF checked.dependencyTarget /= NoDependency
                        THEN [checked.action EXCEPT !.dependencyTargets =
                                 Append(@, checked.dependencyTarget)]
                        ELSE checked.action
         IN [action |-> pushed, errors |-> state.errors \o checked.errors]

RECURSIVE dependencies(_, _)
\* Notebook.dependencies (and the same method of the other builders): each
\* resolvable goes through checkAssertionsForDependency and is pushed onto
\* proto.dependencyTargets unless it was refused
dependencies(state, value) ==
    IF Len(value) = 0 THEN state
    ELSE LET checked == checkAssertionsForDependency(state.action, value[1])
             pushed  == IF checked.dependencyTarget /= NoDependency
                        THEN [checked.action EXCEPT !.dependencyTargets =
                                 Append(@, checked.dependencyTarget)]
                        ELSE checked.action
         IN dependencies([action |-> pushed,
                          errors |-> state.errors \o checked.errors],
                         Tail(value))

\* an optional field of a JSON object: absent, or present with a value
Absent == <<>>
Present(value) == <<value>>

\* a cell of a notebook; outputs is optional
Cell(cell_type, source, outputs) ==
    [cell_type |-> cell_type, source |-> source, outputs |-> outputs]

\* the JSON of an .ipynb file: cells is optional here, a file without it
\* is invalid
NotebookJson(cells, nbformat) == [cells |-> cells, nbformat |-> nbformat]

\* the file createSimpleNotebookProject writes: no cells
EmptyNotebook == NotebookJson(Present(<<>>), "4")

RECURSIVE joined(_)
\* texts separated by commas
joined(texts) ==
    IF texts = <<>> THEN ""
    ELSE IF Len(texts) = 1 THEN texts[1]
    ELSE texts[1] \o "," \o joined(Tail(texts))

\* JSON.stringify of a list of strings
stringifyStrings(list) ==
    "[" \o joined([i \in DOMAIN list |-> "\"" \o list[i] \o "\""]) \o "]"

\* JSON.stringify of a cell: its fields in the order of the object
stringifyCell(cell) ==
    "{" \o joined(<<"\"cell_type\":\"" \o cell.cell_type \o "\"",
                    "\"source\":" \o stringifyStrings(cell.source)>>
                  \o (IF cell.outputs = Absent THEN <<>>
                      ELSE <<"\"outputs\":" \o stringifyStrings(cell.outputs[1])>>))
        \o "}"

\* JSON.stringify of a notebook
stringify(notebookAsJson) ==
    "{" \o joined((IF notebookAsJson.cells = Absent THEN <<>>
                   ELSE <<"\"cells\":["
                            \o joined([i \in DOMAIN notebookAsJson.cells[1] |->
                                          stringifyCell(notebookAsJson.cells[1][i])])
                            \o "]">>)
                  \o <<"\"nbformat\":" \o notebookAsJson.nbformat>>)
        \o "}"

\* a variant that leaves the outputs of the cells in place
stripNotebookOutputs_OutputsKept(notebookAsJson, path) ==
    IF notebookAsJson.cells = Absent
    THEN [thrown |-> "Notebook at " \o path \o " is invalid: cells field not present",
          json   |-> notebookAsJson]
    ELSE [thrown |-> "", json |-> notebookAsJson]

\* stripNotebookOutputs: throws for a notebook without cells; otherwise
\* every cell that has outputs gets outputs = [] in its place
stripNotebookOutputs(notebookAsJson, path) ==
    IF notebookAsJson.cells = Absent
    THEN [thrown |-> "Notebook at " \o path \o " is invalid: cells field not present",
          json   |-> notebookAsJson]
    ELSE [thrown |-> "",
          json   |-> [notebookAsJson EXCEPT !.cells =
                         Present([index \in DOMAIN notebookAsJson.cells[1] |->
                             LET cell == notebookAsJson.cells[1][index]
                             IN IF cell.outputs /= Absent
                                THEN [cell EXCEPT !.outputs = Present(<<>>)]
                                ELSE cell])]]

\* the path of a file as a config gives it, relative to the directory of
\* the action configs
FilePath(base, extension) == [base |-> base, extension |-> extension]
NoFile == FilePath("", "")

\* Path.basename: the name of the file without its extension
basename(path) == path.base

\* resolveActionsConfigFilename: the path under the directory of the
\* action configs
resolveActionsConfigFilename(path, configPath) ==
    configPath \o "/" \o path.base \o "." \o path.extension

\* a variant that leaves a config without a name nameless
named_AsGiven(config) == config

\* the constructor's default of config.name: the base name of the file
named(config) ==
    IF config.name = "" THEN [config EXCEPT !.name = basename(config.filename)]
    ELSE config

\* config.filename of a notebook, resolved against the directory of the
\* action configs; the file of a config that names none is called after
\* the action
filename(config) ==
    IF config.filename = NoFile THEN "definitions/" \o config.name \o ".ipynb"
    ELSE resolveActionsConfigFilename(config.filename, "definitions")

\* the characters of a file that a TLA+ string cannot hold or that read
\* badly in one
Backtick == "BACKTICK"
Backslash == "\\"
DoubleQuote == "\""
SingleQuote == "'"

\* the keywords that open a block of a SQLX file; each is one symbol of the
\* text here
BlockKeywords == {"config", "js", "pre_operations", "post_operations"}

\* the state of the scan of a file: the lexical state, the block being
\* read with the depth of its braces and its text so far, and the output
ScanState(lex, block, depth, current, blocks) ==
    [lex |-> lex, block |-> block, depth |-> depth, current |-> current,
     blocks |-> blocks]

NoBlocks == [body |-> <<>>, config |-> <<>>, js |-> <<>>,
             preOperations |-> <<>>, postOperations |-> <<>>]

\* the output list a block of this keyword goes to
listOf(keyword) ==
    IF keyword = "pre_operations" THEN "preOperations"
    ELSE IF keyword = "post_operations" THEN "postOperations"
    ELSE keyword

\* the characters are passed through to the body, or to the block being read
emit(s, characters) ==
    IF s.block = ""
    THEN [s EXCEPT !.blocks.body = @ \o characters]
    ELSE [s EXCEPT !.current = @ \o characters]

\* the block being read ends: its text joins the list of its keyword
closeBlock(s) ==
    [s EXCEPT !.blocks[listOf(s.block)] = Append(@, s.current),
              !.block = "", !.depth = 0, !.current = <<>>]

\* the three double quotes of a triple-quoted string start at i
isTripleQuote(text, i) ==
    /\ i + 2 <= Len(text)
    /\ text[i] = DoubleQuote /\ text[i + 1] = DoubleQuote /\ text[i + 2] = DoubleQuote

\* the terminator of a string state
terminatorOf(lex) ==
    IF lex = "double" THEN DoubleQuote
    ELSE IF lex = "single" THEN SingleQuote
    ELSE Backtick

\* a step of the scan: the position it continues at and the state it is in
Step(next, state) == [next |-> next, state |-> state]

\* the two characters that open or close a comment start at i
isPairAt(text, i, first, second) ==
    i < Len(text) /\ text[i] = first /\ text[i + 1] = second

\* a step in the normal state: a comment or a string is entered, a keyword
\* followed by a brace opens a block at the top level, a brace inside a
\* block changes its depth and the last one closes it; every other
\* character is passed through
normalStep(text, i, s) ==
    IF isTripleQuote(text, i)
    THEN Step(i + 3, [emit(s, SubSeq(text, i, i + 2)) EXCEPT !.lex = "triple"])
    ELSE IF text[i] = DoubleQuote
    THEN Step(i + 1, [emit(s, <<text[i]>>) EXCEPT !.lex = "double"])
    ELSE IF text[i] = SingleQuote
    THEN Step(i + 1, [emit(s, <<text[i]>>) EXCEPT !.lex = "single"])
    ELSE IF text[i] = Backtick
    THEN Step(i + 1, [emit(s, <<text[i]>>) EXCEPT !.lex = "backtick"])
    ELSE IF isPairAt(text, i, "-", "-")
    THEN Step(i + 2, [emit(s, SubSeq(text, i, i + 1)) EXCEPT !.lex = "line-comment"])
    ELSE IF isPairAt(text, i, "/", "*")
    THEN Step(i + 2, [emit(s, SubSeq(text, i, i + 1)) EXCEPT !.lex = "block-comment"])
    ELSE IF s.block = "" /\ text[i] \in BlockKeywords
              /\ i < Len(text) /\ text[i + 1] = "{"
    THEN Step(i + 2, [s EXCEPT !.block = text[i], !.depth = 1, !.current = <<>>])
    ELSE IF s.block /= "" /\ text[i] = "{"
    THEN Step(i + 1, [emit(s, <<text[i]>>) EXCEPT !.depth = @ + 1])
    ELSE IF s.block /= "" /\ text[i] = "}" /\ s.depth = 1
    THEN Step(i + 1, closeBlock(s))
    ELSE IF s.block /= "" /\ text[i] = "}"
    THEN Step(i + 1, [emit(s, <<text[i]>>) EXCEPT !.depth = @ - 1])
    ELSE Step(i + 1, emit(s, <<text[i]>>))

\* how many characters the terminator of a comment or string state has
terminatorLength(lex) ==
    IF lex = "triple" THEN 3 ELSE IF lex = "block-comment" THEN 2 ELSE 1

\* the terminator of the state starts at i
isTerminatorAt(text, i, lex) ==
    IF lex = "triple" THEN isTripleQuote(text, i)
    ELSE IF lex = "block-comment" THEN isPairAt(text, i, "*", "/")
    ELSE IF lex = "line-comment" THEN text[i] = "\n"
    ELSE text[i] = terminatorOf(lex)

\* a step in a comment or string state: the state is left at its
\* terminator, and every character is passed through
terminatedStep(text, i, s) ==
    IF isTerminatorAt(text, i, s.lex)
    THEN Step(i + terminatorLength(s.lex),
              [emit(s, SubSeq(text, i, i + terminatorLength(s.lex) - 1))
                  EXCEPT !.lex = "normal"])
    ELSE Step(i + 1, emit(s, <<text[i]>>))

\* the states in which a backslash escapes the character after it
StringStates == {"single", "double", "triple", "backtick"}

\* a variant that lets a backslash-escaped terminator end a string
scanStep_EscapesIgnored(text, i, s) ==
    IF s.lex = "normal" THEN normalStep(text, i, s) ELSE terminatedStep(text, i, s)

\* a variant that counts the braces of a block inside comments and strings
scanStep_BracesEverywhere(text, i, s) ==
    IF s.lex = "normal" THEN normalStep(text, i, s)
    ELSE IF s.block /= "" /\ text[i] = "{"
    THEN Step(i + 1, [emit(s, <<text[i]>>) EXCEPT !.depth = @ + 1])
    ELSE IF s.block /= "" /\ text[i] = "}" /\ s.depth = 1
    THEN Step(i + 1, [closeBlock(s) EXCEPT !.lex = "normal"])
    ELSE IF s.block /= "" /\ text[i] = "}"
    THEN Step(i + 1, [emit(s, <<text[i]>>) EXCEPT !.depth = @ - 1])
    ELSE IF s.lex \in StringStates /\ text[i] = Backslash /\ i < Len(text)
    THEN Step(i + 2, emit(s, SubSeq(text, i, i + 1)))
    ELSE terminatedStep(text, i, s)

\* a step of the scan: comments and strings are entered and blocks are
\* opened and closed in the normal state only; inside a comment or a string
\* only its own terminator is recognized, and in a string not after a
\* backslash
scanStep(text, i, s) ==
    IF s.lex = "normal" THEN normalStep(text, i, s)
    ELSE IF s.lex \in StringStates /\ text[i] = Backslash /\ i < Len(text)
    THEN Step(i + 2, emit(s, SubSeq(text, i, i + 1)))
    ELSE terminatedStep(text, i, s)

RECURSIVE scan(_, _, _)
\* the scan of a file, one pass from left to right
scan(text, i, s) ==
    IF i > Len(text) THEN s
    ELSE scan(text, scanStep(text, i, s).next, scanStep(text, i, s).state)

RECURSIVE scanTrace(_, _, _)
\* the positions and states the scan goes through
scanTrace(text, i, s) ==
    IF i > Len(text) THEN <<Step(i, s)>>
    ELSE <<Step(i, s)>> \o scanTrace(text, scanStep(text, i, s).next,
                                      scanStep(text, i, s).state)

\* the segments of a SQLX file
extractBlocks(text) ==
    LET final == scan(text, 1, ScanState("normal", "", 0, <<>>, NoBlocks))
    IN IF final.block = "" THEN final.blocks
       ELSE [final.blocks EXCEPT !.body = @ \o <<final.block, "{">> \o final.current]

\* the hermeticity field of a proto that was given none
Unset == ""

\* a variant that gives every assertion the hermeticity HERMETIC and every
\* other action without hermetic: true NON_HERMETIC
hermeticity_DefaultingByKind(config) ==
    IF config.hermetic \/ config.kind = "assertion" THEN "HERMETIC"
    ELSE "NON_HERMETIC"

\* the hermeticity a builder gives its proto: HERMETIC for hermetic: true;
\* otherwise NON_HERMETIC for tables, views and incremental tables and for
\* the operations of actions.yaml and of SQLX files, and none for the
\* operations and assertions of the JS API, for synthesized assertions and
\* for notebooks and declarations
hermeticity(config) ==
    IF config.hermetic THEN "HERMETIC"
    ELSE IF config.kind \in {"table", "view", "incremental"} THEN "NON_HERMETIC"
    ELSE IF config.kind = "operation" /\ config.origin /= "js" THEN "NON_HERMETIC"
    ELSE IF config.kind = "assertion" /\ config.origin /= "js" THEN "HERMETIC"
    ELSE Unset

\* a variant whose target is computed under session.canonicalProjectConfig
newBuilder_TargetUnderCanonicalConfig(config, session) ==
    [kind            |-> config.kind,
     target          |-> applySessionToTarget(
                             actionConfigToCompiledGraphTarget(config),
                             canonicalProjectConfig(session), config.kind),
     canonicalTarget |-> applySessionToTarget(
                             actionConfigToCompiledGraphTarget(config),
                             canonicalProjectConfig(session), config.kind),
     dependOnDependencyAssertions   |-> config.dependOnDependencyAssertions,
     includeAssertionsForDependency |-> <<>>,
     dependencyTargets |-> <<>>,
     contextable       |-> config.contextable,
     query             |-> IF config.sqlx = Absent THEN config.query
                           ELSE extractBlocks(config.sqlx[1]).body,
     preOps            |-> IF config.sqlx = Absent THEN <<>>
                           ELSE extractBlocks(config.sqlx[1]).preOperations,
     postOps           |-> IF config.sqlx = Absent THEN <<>>
                           ELSE extractBlocks(config.sqlx[1]).postOperations,
     tags              |-> config.tags,
     disabled          |-> config.disabled,
     notebookContents  |-> IF config.kind = "notebook"
                           THEN stringify(stripNotebookOutputs(
                                    config.notebook, filename(config)).json)
                           ELSE "",
     hermeticity       |-> hermeticity(config),
     fileName          |-> IF config.kind = "notebook" THEN filename(config) ELSE "",
     parentAction      |-> NoTarget]

\* a variant whose canonical target is computed under session.projectConfig
newBuilder_CanonicalUnderProjectConfig(config, session) ==
    [kind            |-> config.kind,
     target          |-> applySessionToTarget(
                             actionConfigToCompiledGraphTarget(config),
                             session, config.kind),
     canonicalTarget |-> applySessionToTarget(
                             actionConfigToCompiledGraphTarget(config),
                             session, config.kind),
     dependOnDependencyAssertions   |-> config.dependOnDependencyAssertions,
     includeAssertionsForDependency |-> <<>>,
     dependencyTargets |-> <<>>,
     contextable       |-> config.contextable,
     query             |-> IF config.sqlx = Absent THEN config.query
                           ELSE extractBlocks(config.sqlx[1]).body,
     preOps            |-> IF config.sqlx = Absent THEN <<>>
                           ELSE extractBlocks(config.sqlx[1]).preOperations,
     postOps           |-> IF config.sqlx = Absent THEN <<>>
                           ELSE extractBlocks(config.sqlx[1]).postOperations,
     tags              |-> config.tags,
     disabled          |-> config.disabled,
     notebookContents  |-> IF config.kind = "notebook"
                           THEN stringify(stripNotebookOutputs(
                                    config.notebook, filename(config)).json)
                           ELSE "",
     hermeticity       |-> hermeticity(config),
     fileName          |-> IF config.kind = "notebook" THEN filename(config) ELSE "",
     parentAction      |-> NoTarget]

\* the builder as its constructor leaves it before config.dependencyTargets:
\* target under the session's project config, canonical target under the
\* canonical project config
newBuilder(config, session) ==
    [kind            |-> config.kind,
     target          |-> applySessionToTarget(
                             actionConfigToCompiledGraphTarget(config),
                             session, config.kind),
     canonicalTarget |-> applySessionToTarget(
                             actionConfigToCompiledGraphTarget(config),
                             canonicalProjectConfig(session), config.kind),
     dependOnDependencyAssertions   |-> config.dependOnDependencyAssertions,
     includeAssertionsForDependency |-> <<>>,
     dependencyTargets |-> <<>>,
     contextable       |-> config.contextable,
     query             |-> IF config.sqlx = Absent THEN config.query
                           ELSE extractBlocks(config.sqlx[1]).body,
     preOps            |-> IF config.sqlx = Absent THEN <<>>
                           ELSE extractBlocks(config.sqlx[1]).preOperations,
     postOps           |-> IF config.sqlx = Absent THEN <<>>
                           ELSE extractBlocks(config.sqlx[1]).postOperations,
     tags              |-> config.tags,
     disabled          |-> config.disabled,
     notebookContents  |-> IF config.kind = "notebook"
                           THEN stringify(stripNotebookOutputs(
                                    config.notebook, filename(config)).json)
                           ELSE "",
     hermeticity       |-> hermeticity(config),
     fileName          |-> IF config.kind = "notebook" THEN filename(config) ELSE "",
     parentAction      |-> NoTarget]

\* a variant that runs this.dependencies(config.dependencyTargets) before
\* dependOnDependencyAssertions is assigned
construct_DependenciesBeforeDefault(config, session) ==
    LET early == dependencies(
                     [action |-> [newBuilder(named(config), session) EXCEPT
                                     !.dependOnDependencyAssertions = FALSE],
                      errors |-> <<>>],
                     config.dependencyTargets)
    IN [action |-> [early.action EXCEPT !.dependOnDependencyAssertions =
                                            config.dependOnDependencyAssertions],
        errors |-> early.errors]

\* the constructor of a builder (Notebook's is the one in the sources): the
\* builder, then this.dependencies(config.dependencyTargets)
construct(config, session) ==
    dependencies([action |-> newBuilder(named(config), session), errors |-> <<>>],
                 config.dependencyTargets)

\* a call of a method of a builder, after its construction
BuilderCall(call, argument) == [call |-> call, argument |-> argument]

\* a variant that strips the outputs of the contents it is given
ipynb_OutputsStripped(built, contents) ==
    [built EXCEPT !.action.notebookContents =
        stringify(stripNotebookOutputs(contents, built.action.fileName).json)]

\* Notebook.ipynb: sets or overrides the contents of the notebook
ipynb(built, contents) ==
    [built EXCEPT !.action.notebookContents = stringify(contents)]

RECURSIVE calledOn(_, _)
\* the builder after the calls of ipynb and dependencies made on it, in
\* order
calledOn(built, calls) ==
    IF Len(calls) = 0 THEN built
    ELSE calledOn(IF calls[1].call = "ipynb" THEN ipynb(built, calls[1].argument)
                  ELSE dependencies(built, <<calls[1].argument>>),
                  Tail(calls))


----------------------------------------------------------------------------
(* The session: lookups and compile errors *)

CompileError(message, action, dependency, candidates, chain) ==
    [message |-> message, action |-> action, dependency |-> dependency,
     candidates |-> candidates, chain |-> chain]

\* whether a reference names this action: by name, and by schema and
\* database where the reference gives them (as the action was declared)
matches(resolvable, action) ==
    /\ action.canonicalTarget.name = resolvable.name
    /\ resolvable.schema /= "" => action.canonicalTarget.schema = resolvable.schema
    /\ resolvable.database /= "" =>
           action.canonicalTarget.database = resolvable.database

RECURSIVE findFrom(_, _, _)
findFrom(resolvable, registered, i) ==
    IF i > Len(registered) THEN <<>>
    ELSE (IF matches(resolvable, registered[i]) THEN <<i>> ELSE <<>>)
             \o findFrom(resolvable, registered, i + 1)

\* ActionMap.find: the registered actions (their indices, in registration
\* order) a reference may mean
find(resolvable, registered) == findFrom(resolvable, registered, 1)

candidateNames(found, registered) ==
    [k \in 1..Len(found) |-> schemaAndName(registered[found[k]].target)]

ambiguousActionName(resolvable, found, registered) ==
    CompileError("Ambiguous Action name", "", resolvable.name,
                 candidateNames(found, registered), <<>>)

\* the quote BigQuery identifiers are written in (the grave accent, which a
\* string of this module cannot hold: the apostrophe stands for it)
IdentifierQuote == "'"

\* the SQL text a resolved target is written as
resolveTarget(target) ==
    IdentifierQuote \o targetAsReadableString(target) \o IdentifierQuote

\* a variant that writes an unknown name as a target of its own
resolve_AssumesTarget(resolvable, registered) ==
    LET found == find(resolvable, registered)
    IN IF Len(found) > 1
       THEN [text |-> "",
             errors |-> <<ambiguousActionName(resolvable, found, registered)>>]
       ELSE IF Len(found) = 1
       THEN [text |-> resolveTarget(registered[found[1]].target), errors |-> <<>>]
       ELSE [text |-> resolveTarget(resolvable), errors |-> <<>>]

\* Session.resolve: the text put at the reference site, and the errors raised
resolve(resolvable, registered) ==
    LET found == find(resolvable, registered)
    IN IF Len(found) > 1
       THEN [text |-> "",
             errors |-> <<ambiguousActionName(resolvable, found, registered)>>]
       ELSE IF Len(found) = 1
       THEN [text |-> resolveTarget(registered[found[1]].target), errors |-> <<>>]
       ELSE [text |-> "",
             errors |-> <<CompileError("Could not resolve", "",
                              stringifyResolvable(resolvable), <<>>, <<>>)>>]

----------------------------------------------------------------------------
(* Session.compile, pass 1: every builder compiles its proto *)

RECURSIVE contextify(_, _, _)
\* evaluates the calls of a contextable query in order: ref() declares the
\* dependency and resolves it, resolve() only resolves
contextify(state, calls, registered) ==
    IF Len(calls) = 0 THEN state
    ELSE LET c        == calls[1]
             declared == IF c.call = "ref"
                         THEN dependencies([action |-> state.action,
                                            errors |-> state.errors],
                                           <<c.resolvable>>)
                         ELSE [action |-> state.action, errors |-> state.errors]
             resolved == resolve(c.resolvable, registered)
         IN contextify([action |-> declared.action,
                        errors |-> declared.errors \o resolved.errors,
                        texts  |-> Append(state.texts, resolved.text)],
                       Tail(calls), registered)

\* the characters String.prototype.trim removes, among those of the model
Whitespace == {" ", "\n", "\t"}

RECURSIVE trimEnd(_)
\* the text without its trailing whitespace; a text is a sequence of
\* characters
trimEnd(text) ==
    IF Len(text) > 0 /\ text[Len(text)] \in Whitespace
    THEN trimEnd(SubSeq(text, 1, Len(text) - 1))
    ELSE text

\* a variant that looks at the very last character of the text
endsWithSemicolon_Untrimmed(text) == Len(text) > 0 /\ text[Len(text)] = ";"

endsWithSemicolon(text) ==
    Len(trimEnd(text)) > 0 /\ trimEnd(text)[Len(trimEnd(text))] = ";"

\* a variant that checks the pre- and post-operations as it checks the query
validateQueryString_WithOperations(action) ==
    IF endsWithSemicolon(action.query)
          \/ (\E k \in 1..Len(action.preOps) : endsWithSemicolon(action.preOps[k]))
          \/ (\E k \in 1..Len(action.postOps) : endsWithSemicolon(action.postOps[k]))
    THEN <<CompileError("Semi-colons are not allowed at the end of SQL statements.",
                        targetAsReadableString(action.target), "", <<>>, <<>>)>>
    ELSE <<>>

\* the check of a query string when the action compiles
validateQueryString(action) ==
    IF endsWithSemicolon(action.query)
    THEN <<CompileError("Semi-colons are not allowed at the end of SQL statements.",
                        targetAsReadableString(action.target), "", <<>>, <<>>)>>
    ELSE <<>>

\* a variant that resolves the references of an action among the actions
\* registered before it
compileAction_AmongEarlierActions(action, registered) ==
    LET own  == CHOOSE i \in 1..Len(registered) : registered[i] = action
        done == contextify([action |-> action, errors |-> <<>>, texts |-> <<>>],
                           action.contextable, SubSeq(registered, 1, own))
    IN [proto |-> [kind              |-> action.kind,
                   target            |-> action.target,
                   canonicalTarget   |-> action.canonicalTarget,
                   dependencyTargets |-> done.action.dependencyTargets,
                   parentAction      |-> action.parentAction,
                   queries           |-> done.texts,
                   query             |-> action.query,
                   preOps            |-> action.preOps,
                   postOps           |-> action.postOps,
                   tags              |-> action.tags,
                   disabled          |-> action.disabled,
                   hermeticity       |-> action.hermeticity,
                   fileName          |-> action.fileName,
                   notebookContents  |-> action.notebookContents],
        errors |-> done.errors \o validateQueryString(action)]

\* ActionBuilder.compile: the proto of the compiled graph
compileAction(action, registered) ==
    LET done == contextify([action |-> action, errors |-> <<>>, texts |-> <<>>],
                           action.contextable, registered)
    IN [proto |-> [kind              |-> action.kind,
                   target            |-> action.target,
                   canonicalTarget   |-> action.canonicalTarget,
                   dependencyTargets |-> done.action.dependencyTargets,
                   parentAction      |-> action.parentAction,
                   queries           |-> done.texts,
                   query             |-> action.query,
                   preOps            |-> action.preOps,
                   postOps           |-> action.postOps,
                   tags              |-> action.tags,
                   disabled          |-> action.disabled,
                   hermeticity       |-> action.hermeticity,
                   fileName          |-> action.fileName,
                   notebookContents  |-> action.notebookContents],
        errors |-> done.errors \o validateQueryString(action)]

RECURSIVE compileActions(_, _, _)
compileActions(registered, i, state) ==
    IF i > Len(registered) THEN state
    ELSE LET one == compileAction(registered[i], registered)
         IN compileActions(registered, i + 1,
                           [protos |-> Append(state.protos, one.proto),
                            errors |-> state.errors \o one.errors])


----------------------------------------------------------------------------
(* Session.compile, pass 2: fullyQualifyDependencies *)

\* a variant that appends whether or not the target is listed
appendUnique_Always(targets, target) == Append(targets, target)

appendUnique(targets, target) ==
    IF target \in Range(targets) THEN targets ELSE Append(targets, target)

RECURSIVE appendAllUnique(_, _)
appendAllUnique(targets, more) ==
    IF Len(more) = 0 THEN targets
    ELSE appendAllUnique(appendUnique(targets, more[1]), Tail(more))

\* whether proto is an assertion on the action at index i: one of its
\* dependencies means that action and no other
isAssertionOn(proto, i, protos) ==
    /\ proto.kind = "assertion"
    /\ \E k \in 1..Len(proto.dependencyTargets) :
           find(proto.dependencyTargets[k], protos) = <<i>>

RECURSIVE assertionsFrom(_, _, _)
assertionsFrom(i, protos, j) ==
    IF j > Len(protos) THEN <<>>
    ELSE (IF isAssertionOn(protos[j], i, protos) THEN <<protos[j].target>> ELSE <<>>)
             \o assertionsFrom(i, protos, j + 1)

\* actionAssertionMap.find: the targets of the assertions on the action at
\* index i, synthesized and user-authored, in registration order
assertionsOf(i, protos) == assertionsFrom(i, protos, 1)

missingDependency(proto, dependency) ==
    CompileError("Missing dependency detected",
                 targetAsReadableString(proto.target),
                 stringifyDependency(dependency), <<>>, <<>>)

\* a variant that looks a dependency up among the actions registered before
\* the action that declares it
qualifyDependency_AmongEarlierActions(proto, dependency, protos, state) ==
    LET own   == CHOOSE i \in 1..Len(protos) : protos[i] = proto
        found == find(dependency, SubSeq(protos, 1, own))
    IN IF Len(found) = 0
       THEN [targets |-> state.targets,
             errors  |-> Append(state.errors, missingDependency(proto, dependency))]
       ELSE IF Len(found) = 1
       THEN [targets |->
                 appendAllUnique(
                     appendUnique(state.targets, protos[found[1]].target),
                     IF dependency.includeDependentAssertions
                     THEN assertionsOf(found[1], protos) ELSE <<>>),
             errors  |-> state.errors]
       ELSE [targets |-> state.targets,
             errors  |-> Append(state.errors,
                                [ambiguousActionName(dependency, found, protos)
                                    EXCEPT !.action =
                                        targetAsReadableString(proto.target)])]

\* a variant that keeps a missing dependency among the dependency targets,
\* as it was declared
qualifyDependency_KeepsUnresolved(proto, dependency, protos, state) ==
    LET found == find(dependency, protos)
    IN IF Len(found) = 0
       THEN [targets |-> Append(state.targets,
                                [database |-> dependency.database,
                                 schema   |-> dependency.schema,
                                 name     |-> dependency.name]),
             errors  |-> Append(state.errors, missingDependency(proto, dependency))]
       ELSE IF Len(found) = 1
       THEN [targets |->
                 appendAllUnique(
                     appendUnique(state.targets, protos[found[1]].target),
                     IF dependency.includeDependentAssertions
                     THEN assertionsOf(found[1], protos) ELSE <<>>),
             errors  |-> state.errors]
       ELSE [targets |-> state.targets,
             errors  |-> Append(state.errors,
                                [ambiguousActionName(dependency, found, protos)
                                    EXCEPT !.action =
                                        targetAsReadableString(proto.target)])]

\* a variant that takes the first candidate of an ambiguous name
qualifyDependency_FirstCandidate(proto, dependency, protos, state) ==
    LET found == find(dependency, protos)
    IN IF Len(found) = 0
       THEN [targets |-> state.targets,
             errors  |-> Append(state.errors, missingDependency(proto, dependency))]
       ELSE [targets |->
                 appendAllUnique(
                     appendUnique(state.targets, protos[found[1]].target),
                     IF dependency.includeDependentAssertions
                     THEN assertionsOf(found[1], protos) ELSE <<>>),
             errors  |-> state.errors]

\* a variant that drops a missing dependency without reporting it
qualifyDependency_SilentlyDropped(proto, dependency, protos, state) ==
    LET found == find(dependency, protos)
    IN IF Len(found) = 0 THEN state
       ELSE IF Len(found) = 1
       THEN [targets |->
                 appendAllUnique(
                     appendUnique(state.targets, protos[found[1]].target),
                     IF dependency.includeDependentAssertions
                     THEN assertionsOf(found[1], protos) ELSE <<>>),
             errors  |-> state.errors]
       ELSE [targets |-> state.targets,
             errors  |-> Append(state.errors,
                                [ambiguousActionName(dependency, found, protos)
                                    EXCEPT !.action =
                                        targetAsReadableString(proto.target)])]

\* one dependency of an action: a missing or an ambiguous one is reported
\* and left out, a resolved one becomes the effective target of the action
\* it means, followed by that action's assertions when the dependency
\* includes them; no target is listed twice
qualifyDependency(proto, dependency, protos, state) ==
    LET found == find(dependency, protos)
    IN IF Len(found) = 0
       THEN [targets |-> state.targets,
             errors  |-> Append(state.errors, missingDependency(proto, dependency))]
       ELSE IF Len(found) = 1
       THEN [targets |->
                 appendAllUnique(
                     appendUnique(state.targets, protos[found[1]].target),
                     IF dependency.includeDependentAssertions
                     THEN assertionsOf(found[1], protos) ELSE <<>>),
             errors  |-> state.errors]
       ELSE [targets |-> state.targets,
             errors  |-> Append(state.errors,
                                [ambiguousActionName(dependency, found, protos)
                                    EXCEPT !.action =
                                        targetAsReadableString(proto.target)])]

RECURSIVE qualify(_, _, _, _)
\* the dependencies of one action, in order
qualify(proto, k, protos, state) ==
    IF k > Len(proto.dependencyTargets) THEN state
    ELSE qualify(proto, k + 1, protos,
                 qualifyDependency(proto, proto.dependencyTargets[k], protos, state))

RECURSIVE fullyQualifyDependencies(_, _, _)
\* declarations cannot have dependencies
fullyQualifyDependencies(protos, i, state) ==
    IF i > Len(protos) THEN state
    ELSE LET one == IF protos[i].kind = "declaration"
                    THEN [targets |-> <<>>, errors |-> <<>>]
                    ELSE qualify(protos[i], 1, protos,
                                 [targets |-> <<>>, errors |-> <<>>])
         IN fullyQualifyDependencies(protos, i + 1,
                [protos |-> Append(state.protos,
                                   [protos[i] EXCEPT !.dependencyTargets = one.targets]),
                 errors |-> state.errors \o one.errors])

----------------------------------------------------------------------------
(* Session.compile, pass 3: targets must be unique *)

sharesTarget(protos, i) ==
    \E j \in 1..Len(protos) : j /= i /\ protos[j].target = protos[i].target

sharesCanonicalTarget(protos, i) ==
    \E j \in 1..Len(protos) :
        j /= i /\ protos[j].canonicalTarget = protos[i].canonicalTarget

\* a variant that stops at the first scope that fails
duplicateErrors_FirstScopeOnly(protos, i) ==
    IF sharesTarget(protos, i)
    THEN <<CompileError("Duplicate action name detected",
                        targetAsReadableString(protos[i].target), "", <<>>, <<>>)>>
    ELSE IF sharesCanonicalTarget(protos, i)
    THEN <<CompileError("Duplicate canonical target detected",
                        targetAsReadableString(protos[i].canonicalTarget),
                        "", <<>>, <<>>)>>
    ELSE <<>>

\* a variant that reports a shared target once, at its second holder
duplicateErrors_OncePerTarget(protos, i) ==
    (IF \E j \in 1..(i - 1) : protos[j].target = protos[i].target
     THEN <<CompileError("Duplicate action name detected",
                         targetAsReadableString(protos[i].target), "", <<>>, <<>>)>>
     ELSE <<>>)
    \o
    (IF \E j \in 1..(i - 1) : protos[j].canonicalTarget = protos[i].canonicalTarget
     THEN <<CompileError("Duplicate canonical target detected",
                         targetAsReadableString(protos[i].canonicalTarget),
                         "", <<>>, <<>>)>>
     ELSE <<>>)

\* the errors one action raises: one in the name scope when another action
\* has its target, one in the canonical scope when another action has its
\* canonical target
duplicateErrors(protos, i) ==
    (IF sharesTarget(protos, i)
     THEN <<CompileError("Duplicate action name detected",
                         targetAsReadableString(protos[i].target), "", <<>>, <<>>)>>
     ELSE <<>>)
    \o
    (IF sharesCanonicalTarget(protos, i)
     THEN <<CompileError("Duplicate canonical target detected",
                         targetAsReadableString(protos[i].canonicalTarget),
                         "", <<>>, <<>>)>>
     ELSE <<>>)

RECURSIVE checkTargetsAreUnique(_, _)
checkTargetsAreUnique(protos, i) ==
    IF i > Len(protos) THEN <<>>
    ELSE duplicateErrors(protos, i) \o checkTargetsAreUnique(protos, i + 1)


----------------------------------------------------------------------------
(* Session.compile, pass 4: circular dependencies *)

RECURSIVE indexOfTarget(_, _, _)
\* the first action of the graph with this target, 0 when there is none
indexOfTarget(protos, target, i) ==
    IF i > Len(protos) THEN 0
    ELSE IF protos[i].target = target THEN i
    ELSE indexOfTarget(protos, target, i + 1)

RECURSIVE positionIn(_, _, _)
positionIn(path, x, k) ==
    IF k > Len(path) THEN 0
    ELSE IF path[k] = x THEN k
    ELSE positionIn(path, x, k + 1)

RECURSIVE visit(_, _, _)
RECURSIVE visitDependencies(_, _, _, _)

\* depth-first traversal from action i along path: the chain of the first
\* cycle met (from the action met again, along the path, back to it), <<>>
\* when the traversal from i meets none
visit(protos, i, path) ==
    IF positionIn(path, i, 1) > 0
    THEN Append(SubSeq(path, positionIn(path, i, 1), Len(path)), i)
    ELSE visitDependencies(protos, i, 1, Append(path, i))

visitDependencies(protos, i, k, path) ==
    IF k > Len(protos[i].dependencyTargets) THEN <<>>
    ELSE LET j     == indexOfTarget(protos, protos[i].dependencyTargets[k], 1)
             chain == IF j = 0 THEN <<>> ELSE visit(protos, j, path)
         IN IF chain /= <<>> THEN chain
            ELSE visitDependencies(protos, i, k + 1, path)

RECURSIVE firstCycle(_, _)
firstCycle(protos, i) ==
    IF i > Len(protos) THEN <<>>
    ELSE LET chain == visit(protos, i, <<>>)
         IN IF chain /= <<>> THEN chain ELSE firstCycle(protos, i + 1)

\* a variant whose chain stops at the last action of the cycle
checkCircularity_Truncated(protos) ==
    LET cycle == firstCycle(protos, 1)
    IN IF cycle = <<>> THEN <<>>
       ELSE <<CompileError("Circular dependency detected in chain",
                           targetAsReadableString(protos[cycle[1]].target), "",
                           <<>>,
                           [k \in 1..(Len(cycle) - 1) |-> protos[cycle[k]].target])>>

\* the error of the cycle the traversal discovers, if any: its chain lists
\* the targets of the cycle and ends with the target it started from
checkCircularity(protos) ==
    LET cycle == firstCycle(protos, 1)
    IN IF cycle = <<>> THEN <<>>
       ELSE <<CompileError("Circular dependency detected in chain",
                           targetAsReadableString(protos[cycle[1]].target), "",
                           <<>>,
                           [k \in 1..Len(cycle) |-> protos[cycle[k]].target])>>


----------------------------------------------------------------------------
(* The operations of a compilation *)

\* what verifyObjectMatchesProto finds wrong with a config: a property that
\* the proto of the action kind lacks or types otherwise ("unexpected"), or
\* a collection left empty ("empty")
Mismatch(property, problem) == [property |-> property, problem |-> problem]
NoMismatch == Mismatch("", "")

\* the BigQuery options of a table that the cross-field rules are about
BigQueryOptions(partitionBy, partitionExpirationDays, additionalExpirationDays) ==
    [partitionBy |-> partitionBy,
     clusterBy |-> FALSE,
     partitionExpirationDays |-> partitionExpirationDays,
     requirePartitionFilter |-> FALSE,
     additionalExpirationDays |-> additionalExpirationDays,
     additionalPartitionFilter |-> FALSE]
NoBigQueryOptions == BigQueryOptions(FALSE, FALSE, FALSE)

\* a variant that lets every config through
verifyConfig_AcceptsAnything(unverifiedConfig) == ""

\* verifyConfig: the message verifyObjectMatchesProto throws for a config
\* that does not match the proto of its kind, "" for one that does
verifyConfig(unverifiedConfig) ==
    IF unverifiedConfig.unverified.problem = "unexpected"
    THEN "Unexpected property " \o quoted(unverifiedConfig.unverified.property)
             \o ", or property value type is incorrect"
    ELSE IF unverifiedConfig.unverified.problem = "empty"
    THEN "Unexpected empty value for " \o quoted(unverifiedConfig.unverified.property)
    ELSE ""

\* the message for an option that the BigQuery config of a view lacks
unexpectedInView(property) ==
    "Unexpected property " \o quoted(property) \o " in BigQuery view config. "
        \o "Supported properties are: [\"labels\",\"additionalOptions\"]"

\* the rules of the BigQuery options of a view: only labels and
\* additionalOptions are supported, materialized or not
checkViewOptions(options) ==
    IF options.partitionBy THEN unexpectedInView("partitionBy")
    ELSE IF options.clusterBy THEN unexpectedInView("clusterBy")
    ELSE IF options.partitionExpirationDays
    THEN unexpectedInView("partitionExpirationDays")
    ELSE IF options.requirePartitionFilter
    THEN unexpectedInView("requirePartitionFilter")
    ELSE ""

\* the cross-field rules of the BigQuery options of a table
checkTableOptions(options) ==
    IF (options.partitionExpirationDays \/ options.requirePartitionFilter)
           /\ ~options.partitionBy
    THEN "requirePartitionFilter/partitionExpirationDays are not valid for non partitioned BigQuery tables"
    ELSE IF options.partitionExpirationDays /\ options.additionalExpirationDays
    THEN "partitionExpirationDays has been declared twice"
    ELSE IF options.requirePartitionFilter /\ options.additionalPartitionFilter
    THEN "requirePartitionFilter has been declared twice"
    ELSE ""

\* a variant that checks the options of tables only
checkBigQueryOptions_TablesOnly(config) ==
    IF config.kind = "view" THEN "" ELSE checkTableOptions(config.bigquery)

\* the rules of the BigQuery options of a view or a table
checkBigQueryOptions(config) ==
    IF config.kind = "view" THEN checkViewOptions(config.bigquery)
    ELSE checkTableOptions(config.bigquery)

\* what the constructor of the builder throws for a config, "" when it
\* builds the action
constructorFailure(config) ==
    IF verifyConfig(config) /= "" THEN verifyConfig(config)
    ELSE IF config.kind = "notebook"
    THEN stripNotebookOutputs(config.notebook, filename(config)).thrown
    ELSE checkBigQueryOptions(config)

\* an action as a source file, an actions.yaml entry or a JS API call gives it
ActionConfig(kind, schema, name, inherit, dependencyTargets, contextable, rowConditions) ==
    [kind |-> kind, database |-> "", schema |-> schema, name |-> name,
     dependOnDependencyAssertions |-> inherit,
     dependencyTargets |-> dependencyTargets,
     contextable |-> contextable,
     rowConditions |-> rowConditions,
     query |-> <<>>,
     uniqueKeys |-> 0,
     nonNull |-> FALSE,
     tags |-> <<>>,
     disabled |-> FALSE,
     notebook |-> EmptyNotebook,
     sqlx |-> Absent,
     origin |-> "js",
     hermetic |-> FALSE,
     filename |-> NoFile,
     calls |-> <<>>,
     materialized |-> FALSE,
     unverified |-> NoMismatch,
     bigquery |-> NoBigQueryOptions]

\* a variant that gives the assertion no tags and leaves it enabled
builtInAssertion_OfItsOwn(parent, session, suffix) ==
    LET config == ActionConfig("assertion", "",
                      parent.canonicalTarget.schema \o "_"
                          \o parent.canonicalTarget.name
                          \o "_assertions_" \o suffix,
                      FALSE, <<>>, <<>>, FALSE)
    IN [newBuilder(config, session) EXCEPT
           !.parentAction = parent.target,
           !.dependencyTargets =
               <<[database |-> parent.canonicalTarget.database,
                  schema   |-> parent.canonicalTarget.schema,
                  name     |-> parent.canonicalTarget.name,
                  includeDependentAssertions |-> FALSE]>>]

\* an assertion synthesized from the assertions shorthand of an action:
\* named after the parent's schema and name, an assertion on the parent
\* with the parent's tags and disabled flag
builtInAssertion(parent, session, suffix) ==
    LET config == ActionConfig("assertion", "",
                      parent.canonicalTarget.schema \o "_"
                          \o parent.canonicalTarget.name
                          \o "_assertions_" \o suffix,
                      FALSE, <<>>, <<>>, FALSE)
    IN [newBuilder(config, session) EXCEPT
           !.parentAction = parent.target,
           !.tags = parent.tags,
           !.disabled = parent.disabled,
           !.dependencyTargets =
               <<[database |-> parent.canonicalTarget.database,
                  schema   |-> parent.canonicalTarget.schema,
                  name     |-> parent.canonicalTarget.name,
                  includeDependentAssertions |-> FALSE]>>]

\* the combined assertion of rowConditions and nonNull
rowConditionsAssertion(parent, session) ==
    builtInAssertion(parent, session, "rowConditions")

\* a variant that counts the unique-key groups from 1
uniqueKeyAssertions_CountedFromOne(parent, session, count) ==
    [index \in 1..count |->
        builtInAssertion(parent, session, "uniqueKey_" \o ToString(index))]

\* one assertion for each unique-key group, the groups counted from 0
uniqueKeyAssertions(parent, session, count) ==
    [index \in 1..count |->
        builtInAssertion(parent, session, "uniqueKey_" \o ToString(index - 1))]

\* the assertions the shorthand of a config asks for, in the order they are
\* registered
builtInAssertions(config, parent, session) ==
    uniqueKeyAssertions(parent, session, config.uniqueKeys)
        \o (IF config.rowConditions \/ config.nonNull
            THEN <<rowConditionsAssertion(parent, session)>>
            ELSE <<>>)

\* the actions registered by explicit calls (not synthesized)
\* the names and datasets of the projects that have a '.' in them
DottedTexts == {"table1.extradot", "table2.extradot", "dataset.extradot"}

\* String.prototype.includes(".")
includesDot(text) == text \in DottedTexts

\* a variant that stops at the first problem of a target
validateTarget_FirstProblemOnly(config) ==
    IF includesDot(config.schema)
    THEN <<CompileError("Action target datasets cannot include '.'",
                        config.name, "", <<>>, <<>>)>>
    ELSE IF includesDot(config.name)
    THEN <<CompileError("Action target names cannot include '.'",
                        config.name, "", <<>>, <<>>)>>
    ELSE <<>>

\* applySessionToTarget with validateTarget: an error for a dataset with a
\* '.', an error for a name with a '.'; the operation of actions.yaml in
\* the test leaves each of its errors twice
validateTarget(config) ==
    LET found == (IF includesDot(config.schema)
                  THEN <<CompileError("Action target datasets cannot include '.'",
                                      config.name, "", <<>>, <<>>)>>
                  ELSE <<>>)
                 \o (IF includesDot(config.name)
                     THEN <<CompileError("Action target names cannot include '.'",
                                         config.name, "", <<>>, <<>>)>>
                     ELSE <<>>)
    IN IF config.kind = "operation" /\ config.origin = "yaml"
       THEN found \o found
       ELSE found

declaredActions == SelectSeq(actions, LAMBDA a : a.parentAction = NoTarget)

\* publish / operate / assert / declare / notebook, or an entry of
\* actions.yaml: the builder is constructed and pushed onto session.actions,
\* with the assertion its shorthand asks for.  What the constructor throws
\* is thrown by main when the config is an entry of actions.yaml, and is
\* caught and recorded as a compilation error when it comes from a file of
\* the project that main requires.
Register(config) ==
    /\ phase = "build"
    /\ Len(definitions) < MaxActions
    /\ definitions' = Append(definitions, config)
    /\ IF constructorFailure(config) /= "" /\ config.origin = "yaml"
       THEN /\ thrown' = constructorFailure(config)
            /\ phase' = "thrown"
            /\ UNCHANGED <<actions, graphErrors>>
       ELSE IF constructorFailure(config) /= ""
       THEN /\ graphErrors' = Append(graphErrors,
                                    CompileError(constructorFailure(config),
                                                 "", "", <<>>, <<>>))
            /\ UNCHANGED <<actions, thrown, phase>>
       ELSE LET built == calledOn(construct(config, projectConfig), config.calls)
            IN /\ actions' = actions \o <<built.action>>
                     \o builtInAssertions(config, built.action, projectConfig)
               /\ graphErrors' = graphErrors \o validateTarget(config)
                                      \o built.errors
               /\ UNCHANGED <<thrown, phase>>
    /\ UNCHANGED <<projectDir, projectConfig, compiledGraph>>

\* the project-level rule of BigQuery: a default location must be configured
checkDefaultLocation(config) ==
    IF config.defaultLocation = ""
    THEN <<CompileError("A defaultLocation is required for BigQuery", "", "",
                        <<>>, <<>>)>>
    ELSE <<>>

\* Session.compile: the passes, in order; the graph is returned with every
\* error collected
Compile ==
    /\ phase = "build"
    /\ LET compiled  == compileActions(actions, 1, [protos |-> <<>>, errors |-> <<>>])
           qualified == fullyQualifyDependencies(compiled.protos, 1,
                            [protos |-> <<>>, errors |-> <<>>])
       IN /\ compiledGraph' = qualified.protos
          /\ graphErrors' = graphErrors \o compiled.errors \o qualified.errors
                 \o checkTargetsAreUnique(qualified.protos, 1)
                 \o checkCircularity(qualified.protos)
                 \o checkDefaultLocation(projectConfig)
    /\ phase' = "done"
    /\ UNCHANGED <<projectDir, thrown, projectConfig, definitions, actions>>

\* a project whose settings have been read already
SettingsRead == [workflowSettingsYaml |-> <<>>, dataformJson |-> <<>>,
                 projectConfigOverride |-> <<>>]

InitWith(configs) ==
    /\ projectDir = SettingsRead
    /\ thrown = ""
    /\ projectConfig \in configs
    /\ definitions = <<>>
    /\ actions = <<>>
    /\ graphErrors = <<>>
    /\ phase = "build"
    /\ compiledGraph = <<>>

----------------------------------------------------------------------------
(* Projects whose actions may share targets *)

\* tables and declarations named as the name prefix would rename them
UniqueConfigs ==
    {ActionConfig(kind, "", name, FALSE, <<>>, <<>>, FALSE) :
        kind \in {"table", "declaration"}, name \in {"name", "prefix_name"}}

InitUnique == InitWith(ProjectConfigs)

NextUnique ==
    \/ \E config \in UniqueConfigs : Register(config)
    \/ Compile

SpecUnique == InitUnique /\ [][NextUnique]_vars


----------------------------------------------------------------------------
(* Properties of duplicate detection *)

errorsWith(message) == SelectSeq(graphErrors, LAMBDA e : e.message = message)

holdersOfTarget(target) ==
    {i \in 1..Len(actions) : actions[i].target = target}

holdersOfCanonicalTarget(target) ==
    {i \in 1..Len(actions) : actions[i].canonicalTarget = target}

someTargetShared ==
    \E i \in 1..Len(actions) : Cardinality(holdersOfTarget(actions[i].target)) > 1

someCanonicalTargetShared ==
    \E i \in 1..Len(actions) :
        Cardinality(holdersOfCanonicalTarget(actions[i].canonicalTarget)) > 1

\* C1: in the returned graph, a target shared by two registered actions is
\* reported by a 'Duplicate action name detected' error naming it, a shared
\* canonical target by a 'Duplicate canonical target detected' error naming
\* it; with neither error in the list no two actions of the graph share a
\* target or a canonical target, and the graph holds every registered action.
C1_DuplicatesAreReported ==
    phase = "done" =>
        /\ Len(compiledGraph) = Len(actions)
        /\ \A i \in 1..Len(actions) :
               /\ Cardinality(holdersOfTarget(actions[i].target)) > 1 =>
                      \E k \in 1..Len(graphErrors) :
                          /\ graphErrors[k].message = "Duplicate action name detected"
                          /\ graphErrors[k].action =
                                 targetAsReadableString(actions[i].target)
               /\ Cardinality(holdersOfCanonicalTarget(actions[i].canonicalTarget)) > 1 =>
                      \E k \in 1..Len(graphErrors) :
                          /\ graphErrors[k].message = "Duplicate canonical target detected"
                          /\ graphErrors[k].action =
                                 targetAsReadableString(actions[i].canonicalTarget)
        /\ (errorsWith("Duplicate action name detected") = <<>>
              /\ errorsWith("Duplicate canonical target detected") = <<>>) =>
               \A i, j \in 1..Len(compiledGraph) :
                   i /= j => /\ compiledGraph[i].target /= compiledGraph[j].target
                             /\ compiledGraph[i].canonicalTarget
                                    /= compiledGraph[j].canonicalTarget

\* a compiled project in which two actions share the canonical target but
\* not the target: only the canonical scope reports
C1_Witness ==
    /\ phase = "done"
    /\ someCanonicalTargetShared
    /\ ~someTargetShared
    /\ errorsWith("Duplicate canonical target detected") /= <<>>
    /\ errorsWith("Duplicate action name detected") = <<>>

\* C2 as claimed: two actions sharing both targets give one error per scope
C2_OnceForEachScope ==
    (phase = "done" /\ Len(actions) = 2
        /\ actions[1].target = actions[2].target
        /\ actions[1].canonicalTarget = actions[2].canonicalTarget) =>
        /\ Len(errorsWith("Duplicate action name detected")) = 1
        /\ Len(errorsWith("Duplicate canonical target detected")) = 1

\* C2, amended: each scope reports once per offending action: the name
\* scope holds as many errors as there are actions whose target another
\* action has, the canonical scope as many as there are actions whose
\* canonical target another action has (two and two for a pair sharing both).
C2_OnceForEachOffendingAction ==
    phase = "done" =>
        /\ Len(errorsWith("Duplicate action name detected")) =
               Cardinality({i \in 1..Len(actions) :
                   Cardinality(holdersOfTarget(actions[i].target)) > 1})
        /\ Len(errorsWith("Duplicate canonical target detected")) =
               Cardinality({i \in 1..Len(actions) :
                   Cardinality(holdersOfCanonicalTarget(actions[i].canonicalTarget)) > 1})

\* the project of the test: two actions with the same target and canonical
\* target, four errors
C2_Witness ==
    /\ phase = "done"
    /\ Len(actions) = 2
    /\ actions[1].target = actions[2].target
    /\ actions[1].canonicalTarget = actions[2].canonicalTarget
    /\ Len(errorsWith("Duplicate action name detected")) = 2
    /\ Len(errorsWith("Duplicate canonical target detected")) = 2
    /\ Len(graphErrors) = 4


----------------------------------------------------------------------------
(* Projects whose actions refer to each other by bare names *)

\* no registered action was declared with the target this config declares
isFresh(config) ==
    \A i \in 1..Len(actions) :
        actions[i].canonicalTarget /=
            applySessionToTarget(actionConfigToCompiledGraphTarget(config),
                                 canonicalProjectConfig(projectConfig), config.kind)

RECURSIVE SeqsUpTo(_, _)
\* the sequences over S of length at most n
SeqsUpTo(S, n) ==
    IF n = 0 THEN {<<>>}
    ELSE SeqsUpTo(S, n - 1)
             \cup {Append(s, x) : s \in {t \in SeqsUpTo(S, n - 1) : Len(t) = n - 1},
                                  x \in S}

Dependency(name, flag) == Resolvable("", "", name, flag)
InlineCall(call, name, flag) == [call |-> call, resolvable |-> Resolvable("", "", name, flag)]

\* publish("a", {schema: "foo"}), publish("a", {schema: "bar"}), and an action
\* b whose sites name "a": declared dependencies (a table's) or calls of
\* resolve and ref in its SQL (an operation's)
ResolveConfigs ==
    {ActionConfig("table", schema, "a", FALSE, <<>>, <<>>, FALSE) :
        schema \in {"foo", "bar"}}
    \cup {ActionConfig("table", "foo", "b", FALSE, deps, <<>>, FALSE) :
            deps \in SeqsUpTo({Dependency("a", "unset")}, MaxSites)}
    \cup {ActionConfig("operation", "foo", "b", FALSE, <<>>, calls, FALSE) :
            calls \in SeqsUpTo({InlineCall("resolve", "a", "unset"),
                                InlineCall("ref", "a", "unset")}, MaxSites)}

InitResolve == InitWith(ProjectConfigs)

NextResolve ==
    \/ \E config \in ResolveConfigs : isFresh(config) /\ Register(config)
    \/ Compile

SpecResolve == InitResolve /\ [][NextResolve]_vars


----------------------------------------------------------------------------
(* Properties of name resolution *)

\* the registered actions declared with this name
candidates(name) ==
    {j \in 1..Len(actions) : actions[j].canonicalTarget.name = name}

\* the names action i depends on: its declared dependencies, then the ref
\* calls of its SQL
dependencyNames(i) ==
    [k \in 1..Len(actions[i].dependencyTargets) |->
        actions[i].dependencyTargets[k].name]
    \o LET refs == SelectSeq(actions[i].contextable, LAMBDA c : c.call = "ref")
       IN [k \in 1..Len(refs) |-> refs[k].resolvable.name]

\* the names the SQL of action i resolves, by ref or by resolve
inlineNames(i) ==
    [k \in 1..Len(actions[i].contextable) |-> actions[i].contextable[k].resolvable.name]

RECURSIVE SumOver(_, _)
SumOver(f, S) ==
    IF S = {} THEN 0
    ELSE LET x == CHOOSE y \in S : TRUE IN f[x] + SumOver(f, S \ {x})

howMany(names, Test(_)) == Cardinality({k \in 1..Len(names) : Test(names[k])})

isAmbiguous(name) == Cardinality(candidates(name)) > 1
isUnknown(name) == candidates(name) = {}

errorsOf(message, action) ==
    SelectSeq(graphErrors, LAMBDA e : e.message = message /\ e.action = action)

\* C3: a bare name that more than one registered action has is never
\* resolved: each dependency on it raises one 'Ambiguous Action name' error
\* for the dependent action and adds no edge to any candidate, each inline
\* resolution of it raises one such error and writes the empty string; every
\* such error lists all the candidates as schema.name; the graph is returned
\* with every action.
C3_AmbiguousNameIsReported ==
    phase = "done" =>
        /\ Len(compiledGraph) = Len(actions)
        /\ \A i \in 1..Len(actions) :
               /\ Len(errorsOf("Ambiguous Action name",
                               targetAsReadableString(actions[i].target)))
                      = howMany(dependencyNames(i), isAmbiguous)
               /\ \A k \in 1..Len(dependencyNames(i)) :
                      isAmbiguous(dependencyNames(i)[k]) =>
                          \A j \in candidates(dependencyNames(i)[k]) :
                              actions[j].target
                                  \notin Range(compiledGraph[i].dependencyTargets)
               /\ \A k \in 1..Len(inlineNames(i)) :
                      isAmbiguous(inlineNames(i)[k]) =>
                          compiledGraph[i].queries[k] = ""
        /\ Len(errorsOf("Ambiguous Action name", ""))
               = SumOver([i \in 1..Len(actions) |->
                             howMany(inlineNames(i), isAmbiguous)],
                         1..Len(actions))
        /\ \A k \in 1..Len(graphErrors) :
               graphErrors[k].message = "Ambiguous Action name" =>
                   /\ Len(graphErrors[k].candidates)
                          = Cardinality(candidates(graphErrors[k].dependency))
                   /\ Len(graphErrors[k].candidates) > 1
                   /\ Range(graphErrors[k].candidates)
                          = {schemaAndName(actions[j].target) :
                                j \in candidates(graphErrors[k].dependency)}

\* the project of the test: a in foo, a in bar, and b depending on "a"
C3_Witness ==
    /\ phase = "done"
    /\ Len(actions) = 3
    /\ projectConfig = WorkflowSettings("", "", "")
    /\ Len(actions[3].dependencyTargets) = 1
    /\ Len(graphErrors) = 1
    /\ graphErrors[1].message = "Ambiguous Action name"
    /\ graphErrors[1].candidates = <<"foo.a", "bar.a">>
    /\ compiledGraph[3].dependencyTargets = <<>>

\* C4: an inline resolution of a bare name that no registered action has
\* raises one 'Could not resolve "<name>"' error and writes the empty string
\* at its site; the graph is returned with the referencing action in it.
C4_UnknownNameIsReported ==
    phase = "done" =>
        /\ Len(compiledGraph) = Len(actions)
        /\ \A i \in 1..Len(actions) :
               /\ compiledGraph[i].target = actions[i].target
               /\ Len(compiledGraph[i].queries) = Len(inlineNames(i))
               /\ \A k \in 1..Len(inlineNames(i)) :
                      isUnknown(inlineNames(i)[k]) =>
                          /\ compiledGraph[i].queries[k] = ""
                          /\ \E e \in 1..Len(graphErrors) :
                                 /\ graphErrors[e].message = "Could not resolve"
                                 /\ graphErrors[e].dependency
                                        = "\"" \o inlineNames(i)[k] \o "\""
        /\ Len(errorsOf("Could not resolve", ""))
               = SumOver([i \in 1..Len(actions) |->
                             howMany(inlineNames(i), isUnknown)],
                         1..Len(actions))

\* the project of the test: one file whose SQL is a resolve of an unknown name
C4_Witness ==
    /\ phase = "done"
    /\ Len(actions) = 1
    /\ actions[1].contextable = <<InlineCall("resolve", "a", "unset")>>
    /\ compiledGraph[1].queries = <<"">>
    /\ graphErrors = <<CompileError("Could not resolve", "", "\"a\"", <<>>, <<>>)>>

\* C6: each dependency of an action on a name that no registered action has
\* raises one 'Missing dependency detected' error naming the action and the
\* dependency, and adds no edge; the graph is returned with every action.
C6_MissingDependencyIsReported ==
    phase = "done" =>
        /\ Len(compiledGraph) = Len(actions)
        /\ \A i \in 1..Len(actions) :
               LET missing == errorsOf("Missing dependency detected",
                                       targetAsReadableString(actions[i].target))
               IN /\ Len(missing) = howMany(dependencyNames(i), isUnknown)
                  /\ \A k \in 1..Len(missing) :
                         \E n \in Range(dependencyNames(i)) :
                             /\ isUnknown(n)
                             /\ missing[k].dependency =
                                    "{\"name\":\"" \o n
                                        \o "\",\"includeDependentAssertions\":false}"
                  /\ (\A k \in 1..Len(dependencyNames(i)) :
                         isUnknown(dependencyNames(i)[k]))
                         => compiledGraph[i].dependencyTargets = <<>>

\* the project of the test: one action, depending on a name nothing has
C6_Witness ==
    /\ phase = "done"
    /\ Len(actions) = 1
    /\ projectConfig = WorkflowSettings("", "", "")
    /\ Len(actions[1].dependencyTargets) = 1
    /\ graphErrors = <<CompileError("Missing dependency detected",
                          "defaultProject.foo.b",
                          "{\"name\":\"a\",\"includeDependentAssertions\":false}",
                          <<>>, <<>>)>>


----------------------------------------------------------------------------
(* Projects whose dependencies may be circular *)

ActionNames == {"a", "b", "c"}

\* the sequences of sequence set S in which no element occurs twice
withoutRepeats(S) == {s \in S : Cardinality(Range(s)) = Len(s)}

\* publish(name).dependencies(...) for up to MaxSites of the names, an
\* action's own name included
CycleConfigs ==
    {ActionConfig("table", "", name, FALSE,
                  [k \in 1..Len(names) |-> Dependency(names[k], "unset")],
                  <<>>, FALSE) :
        name \in ActionNames,
        names \in withoutRepeats(SeqsUpTo(ActionNames, MaxSites))}

InitCycle == InitWith({WorkflowSettings("", "", np) : np \in {"", "prefix"}})

NextCycle ==
    \/ \E config \in CycleConfigs : isFresh(config) /\ Register(config)
    \/ Compile

SpecCycle == InitCycle /\ [][NextCycle]_vars

\* action i of the returned graph depends on action j
dependsOn(i, j) == compiledGraph[j].target \in Range(compiledGraph[i].dependencyTargets)

\* the cycles of the returned graph: sequences of distinct actions, each
\* depending on the next and the last on the first
cyclesOfGraph ==
    {p \in withoutRepeats(SeqsUpTo(1..Len(compiledGraph), Len(compiledGraph))) :
        /\ Len(p) > 0
        /\ \A k \in 1..(Len(p) - 1) : dependsOn(p[k], p[k + 1])
        /\ dependsOn(p[Len(p)], p[1])}

\* C5: the returned graph holds a 'Circular dependency detected in chain'
\* error exactly when its dependencies have a cycle, and then a single one;
\* its chain is a cycle of the graph of some length n written as n+1
\* targets: n distinct actions, each depending on the next, then the first
\* one again.
C5_CycleIsReportedAsClosedChain ==
    phase = "done" =>
        LET circular == errorsWith("Circular dependency detected in chain")
        IN /\ Len(compiledGraph) = Len(actions)
           /\ Len(circular) = (IF cyclesOfGraph = {} THEN 0 ELSE 1)
           /\ \A e \in 1..Len(circular) :
                  \E p \in cyclesOfGraph :
                      /\ Len(circular[e].chain) = Len(p) + 1
                      /\ \A k \in 1..Len(p) :
                             circular[e].chain[k] = compiledGraph[p[k]].target
                      /\ circular[e].chain[Len(p) + 1] = compiledGraph[p[1]].target

\* a cycle through three actions, reported as a chain of four targets
C5_Witness ==
    /\ phase = "done"
    /\ Len(actions) = 3
    /\ \A p \in cyclesOfGraph : Len(p) = 3
    /\ Len(errorsWith("Circular dependency detected in chain")) = 1
    /\ Len(errorsWith("Circular dependency detected in chain")[1].chain) = 4
    /\ Len(graphErrors) = 1


----------------------------------------------------------------------------
(* Projects whose actions depend on actions that have assertions *)

DependentAssertionsFlags == {"unset", "true", "false"}

\* the dependencies an action config of B may list, and the refs its SQL
\* may make
DeclaredSites == {Dependency(name, flag) : name \in {"A", "C"},
                                           flag \in DependentAssertionsFlags}
InlineSites == {InlineCall("ref", "A", flag) : flag \in DependentAssertionsFlags}

\* A.sqlx and C.sqlx (tables with a rowConditions assertion), A_assert.sqlx
\* (an assertion that refs A), and B: a notebook of actions.yaml with
\* dependencyTargets, or a table whose SQL refs A besides
AssertedConfigs ==
    {ActionConfig("table", "", name, FALSE, <<>>, <<>>, TRUE) : name \in {"A", "C"}}
    \cup {ActionConfig("assertion", "", "A_assert", FALSE, <<>>,
                       <<InlineCall("ref", "A", "unset")>>, FALSE)}

DependentConfigs ==
    {ActionConfig("notebook", "", "B", inherit, deps, <<>>, FALSE) :
            inherit \in BOOLEAN, deps \in SeqsUpTo(DeclaredSites, MaxSites)}
    \cup {ActionConfig("table", "", "B", inherit, sites[1], sites[2], FALSE) :
            inherit \in BOOLEAN,
            sites \in {ss \in SeqsUpTo(DeclaredSites, MaxSites - 1)
                                \X SeqsUpTo(InlineSites, MaxSites) :
                          Len(ss[2]) > 0 /\ Len(ss[1]) + Len(ss[2]) <= MaxSites}}

InitAssert == InitWith({WorkflowSettings("", "", ""),
                        WorkflowSettings("", "suffix", "prefix")})

isDefined(name) == \E d \in Range(definitions) : d.name = name

NextAssert ==
    \/ \E config \in AssertedConfigs : isFresh(config) /\ Register(config)
    \/ ~isDefined("B") /\ \E config \in DependentConfigs : Register(config)
    \/ Compile

SpecAssert == InitAssert /\ [][NextAssert]_vars

\* the compiled action of a definition
protoOf(config) ==
    CHOOSE proto \in Range(compiledGraph) :
        /\ proto.parentAction = NoTarget
        /\ proto.canonicalTarget.name = config.name

\* the references of a definition as written: its declared dependencies,
\* then the refs of its SQL
RECURSIVE refsOf(_)
refsOf(calls) ==
    IF Len(calls) = 0 THEN <<>>
    ELSE (IF calls[1].call = "ref" THEN <<calls[1].resolvable>> ELSE <<>>)
             \o refsOf(Tail(calls))

sitesOf(config) == config.dependencyTargets \o refsOf(config.contextable)

flagsOn(config, name) ==
    {site.includeDependentAssertions :
        site \in {s \in Range(sitesOf(config)) : s.name = name}}

\* the sites of the definition set the flag of this dependency both ways
isConflicting(config, name) == {"true", "false"} \subseteq flagsOn(config, name)

\* the targets of the assertions of the returned graph on the action
\* defined under this name, synthesized and user-authored
assertionsOn(name) ==
    {proto.target : proto \in
        {p \in Range(compiledGraph) :
            /\ p.kind = "assertion"
            /\ \E d \in Range(definitions) :
                   d.name = name /\ protoOf(d).target \in Range(p.dependencyTargets)}}

\* the dependencies of a definition that the claims below speak of: names
\* of defined actions it references without conflict
settledDependencies(config) ==
    {name \in {site.name : site \in Range(sitesOf(config))} :
        isDefined(name) /\ ~isConflicting(config, name)}

dependencyTargetsOf(config) == Range(protoOf(config).dependencyTargets)

targetOf(name) ==
    protoOf(CHOOSE d \in Range(definitions) : d.name = name).target

C8_ExplicitFalseWinsPerReference ==
    phase = "done" =>
        \A config \in Range(definitions) :
            config.dependOnDependencyAssertions =>
                \A name \in settledDependencies(config) :
                    /\ targetOf(name) \in dependencyTargetsOf(config)
                    /\ flagsOn(config, name) = {"false"} =>
                           assertionsOn(name) \cap dependencyTargetsOf(config) = {}
                    /\ "unset" \in flagsOn(config, name) =>
                           assertionsOn(name) \subseteq dependencyTargetsOf(config)

\* dependOnDependencyAssertions true, A referenced with false and C with no
\* flag: A without its assertions, C with its assertion
C8_Witness ==
    /\ phase = "done"
    /\ graphErrors = <<>>
    /\ \E config \in Range(definitions) :
           /\ config.dependOnDependencyAssertions
           /\ flagsOn(config, "A") = {"false"}
           /\ flagsOn(config, "C") = {"unset"}
           /\ isDefined("A") /\ isDefined("C")
           /\ assertionsOn("A") /= {} /\ assertionsOn("C") /= {}
           /\ dependencyTargetsOf(config) =
                  {targetOf("A"), targetOf("C")} \cup assertionsOn("C")

conflictErrors(config, name) ==
    SelectSeq(graphErrors,
              LAMBDA e : /\ e.message = "Conflicting includeDependentAssertions"
                         /\ e.action = targetAsReadableString(protoOf(config).target)
                         /\ e.dependency = name)

----------------------------------------------------------------------------
(* Projects whose actions override the database and the schema *)

\* actions named "a" with and without a database and a schema of their own
TargetConfigs ==
    {[ActionConfig(kind, schema, "a", FALSE, <<>>, <<>>, rowConditions)
         EXCEPT !.database = database] :
        kind \in {"table", "declaration", "notebook"},
        database \in {"", "otherProject"},
        schema \in {"", "otherDataset"},
        rowConditions \in BOOLEAN}

InitTargets == InitWith(ProjectConfigs)

NextTargets ==
    \/ \E config \in TargetConfigs :
           /\ config.rowConditions => config.kind = "table"
           /\ isFresh(config)
           /\ Register(config)
    \/ Compile

SpecTargets == InitTargets /\ [][NextTargets]_vars

\* where the builder of definition j stands among session.actions
RECURSIVE builderIndex(_)
builderIndex(j) ==
    IF j = 1 THEN 1
    ELSE builderIndex(j - 1)
             + (IF constructorFailure(definitions[j - 1]) /= "" THEN 0
                ELSE 1 + definitions[j - 1].uniqueKeys
                       + (IF definitions[j - 1].rowConditions
                             \/ definitions[j - 1].nonNull THEN 1 ELSE 0))

\* the target as declared: the action's own database and schema where it
\* gives them, the project defaults elsewhere, the name as written
declaredTarget(config) ==
    [database |-> IF config.database = "" THEN projectConfig.defaultDatabase
                  ELSE config.database,
     schema   |-> IF config.schema = "" THEN projectConfig.defaultSchema
                  ELSE config.schema,
     name     |-> config.name]

\* C10: the canonical target of every action, as built and as returned in
\* the graph, is the one the same definition gets under every project
\* config that differs in projectSuffix, datasetSuffix or namePrefix only:
\* the defaults or the action's own database and schema, with no suffix and
\* no prefix.  The same holds for the assertion synthesized from it.
C10_CanonicalTargetsIgnoreSuffixesAndPrefix ==
    \A j \in 1..Len(definitions) :
        LET i == builderIndex(j)
            d == definitions[j]
        IN /\ actions[i].canonicalTarget = declaredTarget(d)
           /\ \A other \in ProjectConfigs :
                  /\ construct(d, other).action.canonicalTarget
                         = actions[i].canonicalTarget
                  /\ d.rowConditions =>
                         rowConditionsAssertion(construct(d, other).action,
                                                other).canonicalTarget
                             = actions[i + 1].canonicalTarget
           /\ phase = "done" =>
                  /\ compiledGraph[i].canonicalTarget = actions[i].canonicalTarget
                  /\ d.rowConditions =>
                         compiledGraph[i + 1].canonicalTarget
                             = actions[i + 1].canonicalTarget

\* under a project suffix, a dataset suffix and a name prefix: a table of
\* the default dataset and a notebook of a dataset of its own, both renamed,
\* both with the canonical target they were declared with
C10_Witness ==
    /\ phase = "done"
    /\ projectConfig = WorkflowSettings("suffix", "suffix", "prefix")
    /\ Len(definitions) = 2
    /\ definitions[1].kind = "table" /\ definitions[1].schema = ""
    /\ definitions[1].database = "" /\ ~definitions[1].rowConditions
    /\ definitions[2].kind = "notebook" /\ definitions[2].schema = "otherDataset"
    /\ compiledGraph[1].target = [database |-> "defaultProject_suffix",
                                  schema   |-> "defaultDataset_suffix",
                                  name     |-> "prefix_a"]
    /\ compiledGraph[1].canonicalTarget = [database |-> "defaultProject",
                                           schema   |-> "defaultDataset",
                                           name     |-> "a"]
    /\ compiledGraph[2].target.schema = "otherDataset"
    /\ compiledGraph[2].target.name = "prefix_a"
    /\ compiledGraph[2].canonicalTarget.schema = "otherDataset"
    /\ compiledGraph[2].canonicalTarget.name = "a"


----------------------------------------------------------------------------
(* Effective targets *)

\* a project default as the environment renames it
suffixed(default, suffix) ==
    IF suffix = "" THEN default ELSE default \o "_" \o suffix

\* C11: the effective target of every action, as built and as returned in
\* the graph, has the action's own database and schema where it gives them,
\* unsuffixed, and elsewhere the project default followed by "_" and the
\* suffix when projectSuffix or datasetSuffix is configured; its name is
\* namePrefix, "_" and the name when namePrefix is configured, except that
\* the name of a declaration is the name as written.
C11_EffectiveTargetFollowsTheEnvironment ==
    \A j \in 1..Len(definitions) :
        LET i == builderIndex(j)
            d == definitions[j]
            t == actions[i].target
        IN /\ t.database = (IF d.database /= "" THEN d.database
                            ELSE suffixed(projectConfig.defaultDatabase,
                                          projectConfig.projectSuffix))
           /\ t.schema = (IF d.schema /= "" THEN d.schema
                          ELSE suffixed(projectConfig.defaultSchema,
                                        projectConfig.datasetSuffix))
           /\ t.name = (IF d.kind = "declaration" \/ projectConfig.namePrefix = ""
                        THEN d.name
                        ELSE projectConfig.namePrefix \o "_" \o d.name)
           /\ phase = "done" => compiledGraph[i].target = t

\* under both suffixes and a prefix: a table of the defaults, renamed in
\* all three fields, and a declaration with a dataset of its own, left as
\* written but for the database
C11_Witness ==
    /\ phase = "done"
    /\ projectConfig = WorkflowSettings("suffix", "suffix", "prefix")
    /\ Len(definitions) = 2
    /\ definitions[1].kind = "table" /\ definitions[1].schema = ""
    /\ definitions[1].database = "" /\ ~definitions[1].rowConditions
    /\ definitions[2].kind = "declaration" /\ definitions[2].schema = "otherDataset"
    /\ definitions[2].database = ""
    /\ compiledGraph[1].target = [database |-> "defaultProject_suffix",
                                  schema   |-> "defaultDataset_suffix",
                                  name     |-> "prefix_a"]
    /\ compiledGraph[2].target = [database |-> "defaultProject_suffix",
                                  schema   |-> "otherDataset",
                                  name     |-> "a"]


----------------------------------------------------------------------------
(* Loading the workflow settings *)

\* the version of the running compiler
CoreVersion == "3.0.0"

\* a custom variable as a settings file writes it
StringVar(text) == [type |-> "string", text |-> text]
NumberVar(text) == [type |-> "number", text |-> text]

\* the fields of a project config other than vars
SettingsFields == {"defaultDatabase", "defaultSchema", "projectSuffix",
                   "datasetSuffix", "namePrefix", "defaultLocation"}

\* the contents of workflow_settings.yaml or dataform.json; "" is a field
\* the file does not give
SettingsFile(dataformCoreVersion, defaultLocation, customVars) ==
    [defaultDatabase     |-> "defaultProject",
     defaultSchema       |-> "defaultDataset",
     projectSuffix       |-> "",
     datasetSuffix       |-> "",
     namePrefix          |-> "",
     defaultLocation     |-> defaultLocation,
     dataformCoreVersion |-> dataformCoreVersion,
     vars                |-> customVars]

\* compileConfig.projectConfigOverride; "" is a field it does not give
ProjectConfigOverride(defaultLocation, namePrefix, customVars) ==
    [defaultDatabase |-> "",
     defaultSchema   |-> "",
     projectSuffix   |-> "",
     datasetSuffix   |-> "",
     namePrefix      |-> namePrefix,
     defaultLocation |-> defaultLocation,
     vars            |-> customVars]

onlyStrings(customVars) == \A key \in DOMAIN customVars : customVars[key].type = "string"

\* the outcome of reading a settings file: what main throws ("" when it
\* goes on) and the settings read
SettingsOutcome(message, settings) == [thrown |-> message, settings |-> settings]

verifyWorkflowSettings(file) ==
    IF ~onlyStrings(file.vars)
    THEN SettingsOutcome(
             "Custom variables defined in workflow settings can only be strings.",
             file)
    ELSE IF file.dataformCoreVersion /= "" /\ file.dataformCoreVersion /= CoreVersion
    THEN SettingsOutcome("Version mismatch", file)
    ELSE SettingsOutcome("", file)

\* a variant that reads workflow_settings.yaml when dataform.json is there too
readWorkflowSettings_PrefersYaml(dir) ==
    IF Len(dir.workflowSettingsYaml) > 0
    THEN verifyWorkflowSettings(dir.workflowSettingsYaml[1])
    ELSE IF Len(dir.dataformJson) > 0
    THEN verifyWorkflowSettings(dir.dataformJson[1])
    ELSE SettingsOutcome("Failed to resolve workflow_settings.yaml", <<>>)

\* readWorkflowSettings: exactly one of the two files must be present
readWorkflowSettings(dir) ==
    IF Len(dir.workflowSettingsYaml) > 0 /\ Len(dir.dataformJson) > 0
    THEN SettingsOutcome(
             "dataform.json has been deprecated and cannot be defined alongside workflow_settings.yaml",
             <<>>)
    ELSE IF Len(dir.workflowSettingsYaml) > 0
    THEN verifyWorkflowSettings(dir.workflowSettingsYaml[1])
    ELSE IF Len(dir.dataformJson) > 0
    THEN verifyWorkflowSettings(dir.dataformJson[1])
    ELSE SettingsOutcome("Failed to resolve workflow_settings.yaml", <<>>)

\* a variant in which the vars of the override replace those of the file
mergeProjectConfig_VarsReplaced(file, override) ==
    [field \in SettingsFields \cup {"vars"} |->
        IF field = "vars"
        THEN IF DOMAIN override.vars /= {} THEN override.vars
             ELSE [key \in DOMAIN file.vars |-> file.vars[key].text]
        ELSE IF override[field] /= "" THEN override[field] ELSE file[field]]

\* the project config of the session: the settings file with the override
\* merged on top, vars key by key
mergeProjectConfig(file, override) ==
    [field \in SettingsFields \cup {"vars"} |->
        IF field = "vars"
        THEN [key \in DOMAIN file.vars \cup DOMAIN override.vars |->
                 IF key \in DOMAIN override.vars THEN override.vars[key]
                 ELSE file.vars[key].text]
        ELSE IF override[field] /= "" THEN override[field] ELSE file[field]]

\* main, up to the creation of the session: the settings are read and
\* verified, which may throw, and the override is merged on top
ReadWorkflowSettings ==
    /\ phase = "load"
    /\ LET read == readWorkflowSettings(projectDir)
       IN IF read.thrown /= ""
          THEN /\ thrown' = read.thrown
               /\ phase' = "thrown"
               /\ UNCHANGED projectConfig
          ELSE /\ projectConfig' = mergeProjectConfig(read.settings,
                                       projectDir.projectConfigOverride)
               /\ phase' = "build"
               /\ UNCHANGED thrown
    /\ UNCHANGED <<projectDir, definitions, actions, graphErrors, compiledGraph>>

\* the custom variables of the settings files of the tests
FileVars ==
    {<<>>,
     [key \in {"selectVar"} |-> StringVar("selectVal")],
     [key \in {"selectVar", "projectVar"} |-> StringVar("valueInFile")],
     [key \in {"intValue", "strValue"} |->
         IF key = "intValue" THEN NumberVar("1") ELSE StringVar("str")]}

OverrideVars ==
    {<<>>,
     [key \in {"projectVar"} |-> "projectVal"],
     [key \in {"selectVar", "projectVar"} |-> "valueInOverride"]}

ProjectDirs ==
    [workflowSettingsYaml :
         {<<>>} \cup {<<SettingsFile(v, l, cv)>> :
                         v \in {"", CoreVersion, "1.0.0"},
                         l \in {"", "locationInWorkflowSettings"},
                         cv \in FileVars},
     dataformJson :
         {<<>>} \cup {<<SettingsFile("", "US", cv)>> :
                         cv \in {<<>>, [key \in {"intVar", "strVar"} |->
                                           IF key = "intVar" THEN NumberVar("1")
                                           ELSE StringVar("str")]}},
     projectConfigOverride :
         {ProjectConfigOverride(l, np, cv) :
             l \in {"", "locationInOverride"}, np \in {"", "prefix"},
             cv \in OverrideVars}]

NoProjectConfig == ProjectConfigOverride("", "", <<>>)

InitSettings ==
    /\ projectDir \in ProjectDirs
    /\ thrown = ""
    /\ projectConfig = NoProjectConfig
    /\ definitions = <<>>
    /\ actions = <<>>
    /\ graphErrors = <<>>
    /\ phase = "load"
    /\ compiledGraph = <<>>

SettingsConfigs ==
    {ActionConfig("table", "", name, FALSE, <<>>, <<>>, FALSE) :
        name \in {"file", "other"}}

NextSettings ==
    \/ ReadWorkflowSettings
    \/ \E config \in SettingsConfigs : isFresh(config) /\ Register(config)
    \/ Compile

SpecSettings == InitSettings /\ [][NextSettings]_vars

\* the settings files present in a project directory
filesPresent(dir) == dir.workflowSettingsYaml \o dir.dataformJson

hasVersionMismatch(file) ==
    file.dataformCoreVersion \notin {"", CoreVersion}

hasNonStringVar(file) ==
    \E key \in DOMAIN file.vars : file.vars[key].type /= "string"

\* the conditions on the settings that are fatal
isFatalToLoad(dir) ==
    \/ Len(filesPresent(dir)) /= 1
    \/ hasVersionMismatch(filesPresent(dir)[1])
    \/ hasNonStringVar(filesPresent(dir)[1])

\* C12: once the settings have been read, main has thrown exactly when
\* both settings files are present, neither is, the file pins another
\* dataformCoreVersion than the compiler's, or one of its vars is not a
\* string; and when it has thrown, no action was built, and there is no
\* compiled graph and no error list.
C12_SettingsProblemsAreFatal ==
    phase /= "load" =>
        /\ isFatalToLoad(projectDir) <=> phase = "thrown"
        /\ phase = "thrown" =>
               /\ thrown /= ""
               /\ definitions = <<>> /\ actions = <<>>
               /\ compiledGraph = <<>> /\ graphErrors = <<>>
               /\ projectConfig = NoProjectConfig
        /\ Len(filesPresent(projectDir)) = 2 =>
               thrown = "dataform.json has been deprecated and cannot be defined alongside workflow_settings.yaml"
        /\ Len(filesPresent(projectDir)) = 0 =>
               thrown = "Failed to resolve workflow_settings.yaml"

\* a workflow_settings.yaml that pins version 1.0.0: main threw
C12_Witness ==
    /\ phase = "thrown"
    /\ thrown = "Version mismatch"
    /\ projectDir.dataformJson = <<>>
    /\ projectDir.workflowSettingsYaml[1].dataformCoreVersion = "1.0.0"
    /\ onlyStrings(projectDir.workflowSettingsYaml[1].vars)

\* C20: the project config of the session has, for every field other than
\* vars, the override's value where the override gives the field and the
\* settings file's value where it does not; its vars are the keys of both
\* maps, each with the override's value where the override has the key and
\* the file's value elsewhere.
C20_OverrideIsMergedOnTop ==
    phase \in {"build", "done"} =>
        LET file     == filesPresent(projectDir)[1]
            override == projectDir.projectConfigOverride
        IN /\ \A field \in SettingsFields :
                  projectConfig[field] =
                      (IF override[field] /= "" THEN override[field] ELSE file[field])
           /\ DOMAIN projectConfig.vars = DOMAIN file.vars \cup DOMAIN override.vars
           /\ \A key \in DOMAIN override.vars :
                  projectConfig.vars[key] = override.vars[key]
           /\ \A key \in DOMAIN file.vars \ DOMAIN override.vars :
                  projectConfig.vars[key] = file.vars[key].text

\* the file gives a location and selectVar, the override another location
\* and projectVar: the override's location and both variables
C20_Witness ==
    /\ phase = "done"
    /\ projectDir.workflowSettingsYaml /= <<>>
    /\ projectDir.workflowSettingsYaml[1].defaultLocation = "locationInWorkflowSettings"
    /\ DOMAIN projectDir.workflowSettingsYaml[1].vars = {"selectVar"}
    /\ DOMAIN projectDir.projectConfigOverride.vars = {"projectVar"}
    /\ projectConfig.defaultLocation = "locationInOverride"
    /\ projectConfig.defaultDatabase = "defaultProject"
    /\ projectConfig.vars = [key \in {"selectVar", "projectVar"} |->
                                IF key = "selectVar" THEN "selectVal" ELSE "projectVal"]
    /\ Len(compiledGraph) = 1


----------------------------------------------------------------------------
(* Projects with action configs that do not pass verification *)

\* a table and a notebook that pass, and configs that do not: entries of
\* actions.yaml with a property of another kind or with no entry at all,
\* publish calls with a property of another kind, with
\* partitionExpirationDays on a table that is not partitioned, and with
\* partitionExpirationDays given twice
VerifiedConfigs ==
    {[ActionConfig(kind, "", kind, FALSE, <<>>, <<>>, FALSE) EXCEPT !.origin = origin] :
        kind \in {"table", "notebook"}, origin \in {"yaml", "js"}}

UnverifiedConfigs ==
    {[ActionConfig("table", "", "name", FALSE, <<>>, <<>>, FALSE)
         EXCEPT !.origin = "yaml", !.unverified = mismatch] :
        mismatch \in {Mismatch("materialized", "unexpected"),
                      Mismatch("actions", "empty")}}
    \cup {[ActionConfig("table", "", "name", FALSE, <<>>, <<>>, FALSE)
              EXCEPT !.unverified = Mismatch("materialized", "unexpected")]}
    \cup {[ActionConfig("table", "", "name", FALSE, <<>>, <<>>, FALSE)
              EXCEPT !.bigquery = options] :
             options \in {BigQueryOptions(FALSE, TRUE, FALSE),
                          BigQueryOptions(TRUE, TRUE, TRUE)}}

InitVerify == InitWith({WorkflowSettings("", "", np) : np \in {"", "prefix"}})

NextVerify ==
    \/ \E config \in VerifiedConfigs : isFresh(config) /\ Register(config)
    \/ \E config \in UnverifiedConfigs : Register(config)
    \/ Compile

SpecVerify == InitVerify /\ [][NextVerify]_vars

\* the configs read so far that break a rule of the action config schema
brokenDefinitions(origin) ==
    SelectSeq(definitions,
              LAMBDA d : /\ d.origin = origin
                         /\ \/ d.unverified /= NoMismatch
                            \/ d.bigquery.partitionExpirationDays
                                  /\ ~d.bigquery.partitionBy
                            \/ d.bigquery.partitionExpirationDays
                                  /\ d.bigquery.additionalExpirationDays)

configErrors ==
    SelectSeq(graphErrors,
              LAMBDA e : e.message \in
                  {"Unexpected property \"materialized\", or property value type is incorrect",
                   "requirePartitionFilter/partitionExpirationDays are not valid for non partitioned BigQuery tables",
                   "partitionExpirationDays has been declared twice"})

----------------------------------------------------------------------------
(* Projects whose SQL may end with a semicolon *)

SqlCharacters == {"1", ";", "\n"}

\* publish("a", "SELECT 1;\n"), publish("b", "SELECT 1;") and the like
SqlConfigs ==
    {[ActionConfig("table", "", name, FALSE, <<>>, <<>>, FALSE) EXCEPT !.query = text] :
        name \in {"a", "b"}, text \in SeqsUpTo(SqlCharacters, MaxSqlLength)}

InitSql == InitWith({WorkflowSettings("", "", "")})

NextSql ==
    \/ \E name \in {"a", "b"} :
           /\ ~isDefined(name)
           /\ \E config \in SqlConfigs : config.name = name /\ Register(config)
    \/ Compile

SpecSql == InitSql /\ [][NextSql]_vars

\* the text has a semicolon followed by nothing but spaces, tabs and newlines
hasTrailingSemicolon(text) ==
    \E k \in 1..Len(text) :
        /\ text[k] = ";"
        /\ \A later \in (k + 1)..Len(text) : text[later] \in {" ", "\t", "\n"}

\* C15: the returned graph holds exactly one 'Semi-colons are not allowed
\* at the end of SQL statements.' error for each action whose SQL text has
\* a semicolon followed by whitespace only, and none for any other action;
\* every action is in the graph.
C15_OneErrorForEachTrailingSemicolon ==
    phase = "done" =>
        /\ Len(compiledGraph) = Len(definitions)
        /\ \A j \in 1..Len(definitions) :
               Len(errorsOf("Semi-colons are not allowed at the end of SQL statements.",
                            targetAsReadableString(compiledGraph[j].target)))
                   = (IF hasTrailingSemicolon(definitions[j].query) THEN 1 ELSE 0)
        /\ Len(errorsWith("Semi-colons are not allowed at the end of SQL statements."))
               = Cardinality({j \in 1..Len(definitions) :
                                 hasTrailingSemicolon(definitions[j].query)})

\* "1;\n" and "1;": two errors
C15_Witness ==
    /\ phase = "done"
    /\ Len(definitions) = 2
    /\ definitions[1].query = <<"1", ";", "\n">>
    /\ definitions[2].query = <<"1", ";">>
    /\ Len(graphErrors) = 2
    /\ Len(compiledGraph) = 2


----------------------------------------------------------------------------
(* Projects whose actions declare shorthand assertions *)

\* a table of the default dataset and an operation of a dataset of its
\* own, with any shorthand: uniqueKeys, nonNull, rowConditions; with or
\* without tags, disabled or not
ShorthandConfigs ==
    {[ActionConfig(parent[1], parent[2], "name", FALSE, <<>>, <<>>, rowConditions)
         EXCEPT !.uniqueKeys = uniqueKeys, !.nonNull = nonNull,
                !.tags = tags, !.disabled = disabled] :
        parent \in {<<"table", "">>, <<"operation", "dataset">>},
        rowConditions \in BOOLEAN, nonNull \in BOOLEAN,
        uniqueKeys \in 0..MaxUniqueKeys,
        tags \in {<<>>, <<"tag1", "tag2">>}, disabled \in BOOLEAN}

InitShorthand ==
    InitWith({WorkflowSettings("", "", ""), WorkflowSettings("suffix", "suffix", "prefix")})

NextShorthand ==
    \/ \E config \in ShorthandConfigs : isFresh(config) /\ Register(config)
    \/ Compile

SpecShorthand == InitShorthand /\ [][NextShorthand]_vars

\* the ordinals unique-key groups are numbered with
Ordinals == <<"0", "1", "2", "3", "4">>

\* the names of the assertions the shorthand of a definition implies, in the
\* order of the graph
impliedAssertionNames(d) ==
    LET stem == (IF d.schema = "" THEN projectConfig.defaultSchema ELSE d.schema)
                    \o "_" \o d.name \o "_assertions_"
    IN [k \in 1..d.uniqueKeys |-> stem \o "uniqueKey_" \o Ordinals[k]]
           \o (IF d.rowConditions \/ d.nonNull THEN <<stem \o "rowConditions">>
               ELSE <<>>)

\* C16: in the returned graph every action of the project is followed by
\* the assertions synthesized from its shorthand and by nothing else: one
\* for each unique-key group, named <parent schema>_<parent name>_assertions_
\* uniqueKey_<index from 0>, then one named <parent schema>_<parent name>_
\* assertions_rowConditions when rowConditions or nonNull is given; an
\* action without shorthand is followed by none.
C16_ShorthandYieldsItsAssertions ==
    phase = "done" =>
        /\ \A j \in 1..Len(definitions) :
               LET i     == builderIndex(j)
                   names == impliedAssertionNames(definitions[j])
               IN /\ compiledGraph[i].parentAction = NoTarget
                  /\ compiledGraph[i].canonicalTarget.name = definitions[j].name
                  /\ \A k \in 1..Len(names) :
                         /\ compiledGraph[i + k].kind = "assertion"
                         /\ compiledGraph[i + k].parentAction = compiledGraph[i].target
                         /\ compiledGraph[i + k].canonicalTarget.name = names[k]
                  /\ i + Len(names) = (IF j = Len(definitions) THEN Len(compiledGraph)
                                       ELSE builderIndex(j + 1) - 1)
        /\ definitions = <<>> => compiledGraph = <<>>

\* uniqueKeys with two groups, nonNull and rowConditions on an operation of
\* dataset "dataset": the operation and three assertions
C16_Witness ==
    /\ phase = "done"
    /\ graphErrors = <<>>
    /\ Len(definitions) = 1
    /\ definitions[1].kind = "operation"
    /\ definitions[1].uniqueKeys = 2 /\ definitions[1].nonNull
    /\ definitions[1].rowConditions
    /\ Len(compiledGraph) = 4
    /\ compiledGraph[2].canonicalTarget.name = "dataset_name_assertions_uniqueKey_0"
    /\ compiledGraph[3].canonicalTarget.name = "dataset_name_assertions_uniqueKey_1"
    /\ compiledGraph[4].canonicalTarget.name = "dataset_name_assertions_rowConditions"

\* C17: every synthesized assertion of the returned graph has a parent in
\* the graph whose effective target is its parentAction and the only entry
\* of its dependencyTargets, and whose tags and disabled flag it has.
C17_SynthesizedAssertionFollowsItsParent ==
    phase = "done" =>
        \A k \in 1..Len(compiledGraph) :
            compiledGraph[k].parentAction /= NoTarget =>
                \E i \in 1..Len(compiledGraph) :
                    /\ compiledGraph[i].parentAction = NoTarget
                    /\ compiledGraph[i].target = compiledGraph[k].parentAction
                    /\ compiledGraph[k].dependencyTargets = <<compiledGraph[i].target>>
                    /\ compiledGraph[k].tags = compiledGraph[i].tags
                    /\ compiledGraph[k].disabled = compiledGraph[i].disabled

\* a disabled table with tags, under suffixes and a prefix: its
\* rowConditions assertion is disabled, has the tags and depends on the
\* renamed table
C17_Witness ==
    /\ phase = "done"
    /\ graphErrors = <<>>
    /\ projectConfig.namePrefix = "prefix"
    /\ Len(definitions) = 1
    /\ definitions[1].kind = "table" /\ definitions[1].disabled
    /\ definitions[1].tags = <<"tag1", "tag2">>
    /\ definitions[1].uniqueKeys = 0
    /\ Len(compiledGraph) = 2
    /\ compiledGraph[2].disabled
    /\ compiledGraph[2].tags = <<"tag1", "tag2">>
    /\ compiledGraph[2].parentAction = [database |-> "defaultProject_suffix",
                                        schema   |-> "defaultDataset_suffix",
                                        name     |-> "prefix_name"]
    /\ compiledGraph[2].dependencyTargets = <<compiledGraph[2].parentAction>>


----------------------------------------------------------------------------
(* Projects with a notebook *)

\* the cells of the notebooks: with outputs, with none left, without the field
NotebookCells ==
    {Cell("markdown", <<"# Some title">>, Present(<<"something">>)),
     Cell("markdown", <<"# Some title">>, Present(<<>>)),
     Cell("code", <<"print('hi')">>, Present(<<>>)),
     Cell("raw", <<"print('hi')">>, Absent)}

RECURSIVE listsOf(_, _)
\* the lists of at most n elements of S
listsOf(S, n) ==
    IF n = 0 THEN {<<>>}
    ELSE listsOf(S, n - 1)
             \cup {Append(list, x) : list \in {l \in listsOf(S, n - 1) : Len(l) = n - 1}, x \in S}

\* the notebook files: any cells, and files without the cells field
Notebooks ==
    {NotebookJson(cells, nbformat) :
        cells \in {Absent} \cup {Present(list) : list \in listsOf(NotebookCells, MaxCells)},
        nbformat \in {"4", "5"}}

\* a notebook of actions.yaml, and a table beside it
NotebookConfigs ==
    {[ActionConfig("notebook", "", "notebook", FALSE, <<>>, <<>>, FALSE)
         EXCEPT !.notebook = notebook, !.origin = "yaml"] :
        notebook \in Notebooks}
    \cup {ActionConfig("table", "", "table", FALSE, <<>>, <<>>, FALSE)}

InitNotebook == InitWith({WorkflowSettings("", "", "")})

NextNotebook ==
    \/ \E config \in NotebookConfigs : isFresh(config) /\ Register(config)
    \/ Compile

SpecNotebook == InitNotebook /\ [][NextNotebook]_vars

\* whether the cells of a compiled notebook are the cells of the file with
\* every outputs field emptied
isStripped(compiled, file) ==
    /\ Len(compiled) = Len(file)
    /\ \A index \in DOMAIN file :
           /\ compiled[index].cell_type = file[index].cell_type
           /\ compiled[index].source = file[index].source
           /\ compiled[index].outputs =
                  (IF file[index].outputs = Absent THEN Absent ELSE Present(<<>>))

\* C19: the notebookContents of every notebook of the returned graph is the
\* JSON text of a notebook with the cells of its file in number and order,
\* where every cell that has outputs in the file has an empty list of
\* outputs, every cell without the field has none, and every other field is
\* as in the file.
C19_NotebookOutputsAreStripped ==
    phase = "done" =>
        \A j \in 1..Len(definitions) :
            (definitions[j].kind = "notebook" /\ constructorFailure(definitions[j]) = "") =>
                \E compiled \in Notebooks :
                    /\ compiledGraph[builderIndex(j)].notebookContents = stringify(compiled)
                    /\ compiled.cells /= Absent
                    /\ compiled.nbformat = definitions[j].notebook.nbformat
                    /\ isStripped(compiled.cells[1], definitions[j].notebook.cells[1])

\* the notebook of the test: a cell with outputs and a cell without
C19_Witness ==
    /\ phase = "done"
    /\ Len(definitions) = 1
    /\ definitions[1].notebook.cells =
           Present(<<Cell("markdown", <<"# Some title">>, Present(<<"something">>)),
                     Cell("raw", <<"print('hi')">>, Absent)>>)
    /\ Len(compiledGraph) = 1
    /\ compiledGraph[1].notebookContents =
           "{\"cells\":[{\"cell_type\":\"markdown\",\"source\":[\"# Some title\"],\"outputs\":[]},"
               \o "{\"cell_type\":\"raw\",\"source\":[\"print('hi')\"]}],\"nbformat\":"
               \o definitions[1].notebook.nbformat \o "}"


----------------------------------------------------------------------------
(* Projects with recoverable problems of every kind *)

\* tables a (in two datasets, or depending on b), tables b (depending on a
\* or on a name nothing has, or with a trailing semicolon and a ref, or with
\* a ref of a name nothing has), and the files of the test with dots
RecoverableConfigs ==
    {ActionConfig("table", "", "a", FALSE, <<>>, <<>>, FALSE),
     ActionConfig("table", "other", "a", FALSE, <<>>, <<>>, FALSE),
     ActionConfig("table", "", "a", FALSE, <<Dependency("b", "unset")>>, <<>>, FALSE),
     ActionConfig("table", "", "b", FALSE, <<Dependency("a", "unset")>>, <<>>, FALSE),
     ActionConfig("table", "", "b", FALSE, <<Dependency("x", "unset")>>, <<>>, FALSE),
     [ActionConfig("table", "", "b", FALSE, <<>>, <<InlineCall("ref", "a", "unset")>>, FALSE)
         EXCEPT !.query = <<"1", ";", "\n">>],
     ActionConfig("operation", "", "b", FALSE, <<>>, <<InlineCall("resolve", "y", "unset")>>, FALSE),
     ActionConfig("table", "", "table1.extradot", FALSE, <<>>, <<>>, FALSE),
     [ActionConfig("operation", "dataset.extradot", "table2.extradot", FALSE, <<>>, <<>>, FALSE)
         EXCEPT !.origin = "yaml"]}

\* with and without a defaultLocation
InitRecoverable ==
    InitWith({[WorkflowSettings("", "", "") EXCEPT !.defaultLocation = location] :
                 location \in {"US", ""}})

NextRecoverable ==
    \/ \E config \in RecoverableConfigs : Register(config)
    \/ Compile

SpecRecoverable == InitRecoverable /\ [][NextRecoverable]_vars

\* how many of the definitions pass the test
definitionsWith(Test(_)) ==
    Cardinality({j \in 1..Len(definitions) : Test(definitions[j])})

hasDottedName(d) == d.name \in {"table1.extradot", "table2.extradot"}
hasDottedDataset(d) == d.schema = "dataset.extradot"
hasSemicolon(d) == hasTrailingSemicolon(d.query)

\* C14: a project whose problems are all recoverable compiles to the end:
\* nothing is thrown, the returned graph holds every action that was built,
\* and no problem is dropped: the error list holds an entry of its own for
\* each dependency on a name nothing has, for each dependency or inline
\* reference of a name several actions have, for each inline reference of
\* a name nothing has, for each target that several actions declare, for a
\* cycle of the graph, for each action with a trailing semicolon, for each
\* action with a '.' in its name and each with a '.' in its dataset, and for
\* a missing defaultLocation.
C14_RecoverableProblemsAreAllReported ==
    phase = "done" =>
        /\ thrown = ""
        /\ Len(compiledGraph) = Len(definitions)
        /\ \A j \in 1..Len(definitions) :
               /\ compiledGraph[j].canonicalTarget.name = definitions[j].name
               /\ compiledGraph[j].kind = definitions[j].kind
        /\ Len(errorsWith("Missing dependency detected"))
               >= SumOver([i \in 1..Len(actions) |->
                              howMany(dependencyNames(i), isUnknown)], 1..Len(actions))
        /\ Len(errorsWith("Ambiguous Action name"))
               >= SumOver([i \in 1..Len(actions) |->
                              howMany(dependencyNames(i), isAmbiguous)
                                  + howMany(inlineNames(i), isAmbiguous)],
                          1..Len(actions))
        /\ Len(errorsWith("Could not resolve"))
               >= SumOver([i \in 1..Len(actions) |->
                              howMany(inlineNames(i), isUnknown)], 1..Len(actions))
        /\ \A i \in 1..Len(actions) :
               Cardinality(holdersOfTarget(actions[i].target)) > 1 =>
                   errorsOf("Duplicate action name detected",
                            targetAsReadableString(actions[i].target)) /= <<>>
        /\ cyclesOfGraph /= {} =>
               errorsWith("Circular dependency detected in chain") /= <<>>
        /\ Len(errorsWith("Semi-colons are not allowed at the end of SQL statements."))
               >= definitionsWith(hasSemicolon)
        /\ Len(errorsWith("Action target names cannot include '.'"))
               >= definitionsWith(hasDottedName)
        /\ Len(errorsWith("Action target datasets cannot include '.'"))
               >= definitionsWith(hasDottedDataset)
        /\ projectConfig.defaultLocation = "" =>
               errorsWith("A defaultLocation is required for BigQuery") /= <<>>

\* no defaultLocation, the operation of actions.yaml with its dots, a table
\* depending on a name nothing has, and a table with a trailing semicolon:
\* the graph has the three actions and the list every error
C14_Witness ==
    /\ phase = "done"
    /\ thrown = ""
    /\ projectConfig.defaultLocation = ""
    /\ Len(definitions) = 3
    /\ Len(compiledGraph) = 3
    /\ definitionsWith(hasDottedDataset) = 1
    /\ definitionsWith(hasSemicolon) = 1
    /\ Len(errorsWith("Action target datasets cannot include '.'")) = 2
    /\ Len(errorsWith("Action target names cannot include '.'")) = 2
    /\ Len(errorsWith("Semi-colons are not allowed at the end of SQL statements.")) = 1
    /\ Len(errorsWith("Missing dependency detected")) >= 1
    /\ Len(errorsWith("A defaultLocation is required for BigQuery")) = 1


----------------------------------------------------------------------------
(* Projects with one SQLX file *)

\* what the SQL of the files is made of: plain text, a string with a
\* backtick, strings with an escaped quote, a string with raw backslashes, a
\* string with a closing brace, a backtick-quoted name, and a triple-quoted
\* string with a quote and a backtick in it
SqlPieces ==
    {<<"x">>,
     <<DoubleQuote, Backtick, DoubleQuote>>,
     <<DoubleQuote, Backslash, DoubleQuote, "}", DoubleQuote>>,
     <<SingleQuote, Backslash, SingleQuote, DoubleQuote, SingleQuote>>,
     <<SingleQuote, Backslash, Backslash, SingleQuote>>,
     <<Backtick, "x", Backtick>>,
     <<DoubleQuote, DoubleQuote, DoubleQuote, Backtick, DoubleQuote, "x",
       DoubleQuote, DoubleQuote, DoubleQuote>>}

RECURSIVE flattened(_)
\* the pieces one after the other
flattened(pieces) ==
    IF pieces = <<>> THEN <<>> ELSE pieces[1] \o flattened(Tail(pieces))

\* the SQL bodies: up to MaxPieces pieces
SqlBodies == {flattened(pieces) : pieces \in listsOf(SqlPieces, MaxPieces)}

\* the config block of the files
ConfigBlock == <<"config", "{", "x", "}">>

\* config { ... } SQL pre_operations { SQL } and the same with
\* post_operations, as the tests write them
SqlxFiles ==
    {ConfigBlock \o body \o <<keyword, "{">> \o inner \o <<"}">> :
        body \in SqlBodies, inner \in SqlPieces,
        keyword \in {"pre_operations", "post_operations"}}

SqlxConfigs ==
    {[ActionConfig("table", "", "file", FALSE, <<>>, <<>>, FALSE)
         EXCEPT !.sqlx = Present(file), !.origin = "sqlx"] : file \in SqlxFiles}

InitSqlx == InitWith({WorkflowSettings("", "", "")})

NextSqlx ==
    \/ /\ ~isDefined("file")
       /\ \E config \in SqlxConfigs : Register(config)
    \/ Compile

SpecSqlx == InitSqlx /\ [][NextSqlx]_vars

\* where the keyword of the operations block of a file is
operationsAt(file) ==
    CHOOSE k \in 1..Len(file) : file[k] \in {"pre_operations", "post_operations"}

\* the text of the file between its config block and its operations block
bodyOf(file) == SubSeq(file, Len(ConfigBlock) + 1, operationsAt(file) - 1)

\* the text of the file between the braces of its operations block
operationsOf(file) == SubSeq(file, operationsAt(file) + 2, Len(file) - 1)

\* C18: for every file made of a config block, a SQL body and a
\* pre_operations or post_operations block, whose SQL has triple-quoted
\* strings, backticks, escaped quotes and raw backslashes, the compiled
\* query is the text between the config block and the operations block,
\* and the one entry of preOps or postOps is the text between the braces of
\* the operations block, character for character; the other list is empty.
C18_BlocksAreExtractedVerbatim ==
    phase = "done" =>
        \A j \in 1..Len(definitions) :
            LET file == definitions[j].sqlx[1]
            IN /\ compiledGraph[j].query = bodyOf(file)
               /\ file[operationsAt(file)] = "pre_operations" =>
                      /\ compiledGraph[j].preOps = <<operationsOf(file)>>
                      /\ compiledGraph[j].postOps = <<>>
               /\ file[operationsAt(file)] = "post_operations" =>
                      /\ compiledGraph[j].postOps = <<operationsOf(file)>>
                      /\ compiledGraph[j].preOps = <<>>

\* a body with an escaped quote and a closing brace inside a string, and a
\* pre_operations block with a triple-quoted string
C18_Witness ==
    /\ phase = "done"
    /\ graphErrors = <<>>
    /\ Len(compiledGraph) = 1
    /\ compiledGraph[1].query = <<DoubleQuote, Backslash, DoubleQuote, "}", DoubleQuote>>
    /\ compiledGraph[1].preOps =
           <<(<<DoubleQuote, DoubleQuote, DoubleQuote, Backtick, DoubleQuote, "x",
                DoubleQuote, DoubleQuote, DoubleQuote>>)>>
    /\ compiledGraph[1].postOps = <<>>

----------------------------------------------------------------------------
(* Projects whose dependencies repeat *)

\* the dependencies B may list: A with and without its assertions, A's
\* assertion A_assert by name, and C
RepeatedSites ==
    {Dependency("A", "unset"), Dependency("A", "true"),
     Dependency("A_assert", "unset"), Dependency("C", "unset")}

\* B: a table that lists dependencies and may ref A with its assertions
RepeatingConfigs ==
    {ActionConfig("table", "", "B", inherit, deps, refs, FALSE) :
        inherit \in BOOLEAN, deps \in SeqsUpTo(RepeatedSites, MaxSites),
        refs \in {<<>>, <<InlineCall("ref", "A", "true")>>}}

InitRepeat == InitWith({WorkflowSettings("", "", ""),
                        WorkflowSettings("", "suffix", "prefix")})

NextRepeat ==
    \/ \E config \in AssertedConfigs : isFresh(config) /\ Register(config)
    \/ ~isDefined("B") /\ \E config \in RepeatingConfigs : Register(config)
    \/ Compile

SpecRepeat == InitRepeat /\ [][NextRepeat]_vars

RECURSIVE assertionTargetsFrom(_, _)
\* the targets of the assertions of the returned graph that depend on the
\* target, from index j on, in the order of the graph
assertionTargetsFrom(target, j) ==
    IF j > Len(compiledGraph) THEN <<>>
    ELSE (IF compiledGraph[j].kind = "assertion"
               /\ target \in Range(compiledGraph[j].dependencyTargets)
          THEN <<compiledGraph[j].target>> ELSE <<>>)
             \o assertionTargetsFrom(target, j + 1)

\* what one reference of a definition stands for: the target of the action
\* it names, then that action's assertions when the reference includes them
expansionOf(config, site) ==
    IF ~isDefined(site.name) THEN <<>>
    ELSE <<targetOf(site.name)>>
             \o (IF site.includeDependentAssertions = "true"
                      \/ (site.includeDependentAssertions = "unset"
                            /\ config.dependOnDependencyAssertions)
                 THEN assertionTargetsFrom(targetOf(site.name), 1)
                 ELSE <<>>)

RECURSIVE expansion(_, _)
\* the references of a definition, expanded, in declaration order
expansion(config, sites) ==
    IF sites = <<>> THEN <<>>
    ELSE expansionOf(config, sites[1]) \o expansion(config, Tail(sites))

RECURSIVE firstOccurrences(_, _)
\* the list without the later occurrences of its entries
firstOccurrences(list, seen) ==
    IF list = <<>> THEN <<>>
    ELSE (IF list[1] \in seen THEN <<>> ELSE <<list[1]>>)
             \o firstOccurrences(Tail(list), seen \cup {list[1]})

----------------------------------------------------------------------------
(* Projects with one SQLX file whose statements may end with a semicolon *)

\* the texts of a body or of a block: "1;" with newlines around and the like
SqlTexts == SeqsUpTo(SqlCharacters, MaxSqlLength)

\* config { ... } SQL pre_operations { SQL } and the same with
\* post_operations
TerminatedFiles ==
    {ConfigBlock \o body \o <<keyword, "{">> \o inner \o <<"}">> :
        body \in SqlTexts, inner \in SqlTexts,
        keyword \in {"pre_operations", "post_operations"}}

TerminatedConfigs ==
    {[ActionConfig("table", "", "file", FALSE, <<>>, <<>>, FALSE)
         EXCEPT !.sqlx = Present(file), !.origin = "sqlx"] : file \in TerminatedFiles}

InitTerminated == InitWith({WorkflowSettings("", "", "")})

NextTerminated ==
    \/ /\ ~isDefined("file")
       /\ \E config \in TerminatedConfigs : Register(config)
    \/ Compile

SpecTerminated == InitTerminated /\ [][NextTerminated]_vars

semicolonErrors ==
    errorsWith("Semi-colons are not allowed at the end of SQL statements.")

\* C22 as claimed: a block whose text ends with a semicolon, whitespace
\* aside, is flagged with the trailing-semicolon error
C22_BlockSemicolonIsFlagged ==
    phase = "done" =>
        \A j \in 1..Len(definitions) :
            hasTrailingSemicolon(operationsOf(definitions[j].sqlx[1])) =>
                semicolonErrors /= <<>>

\* C22, amended: a semicolon at the end of a pre_operations or
\* post_operations block raises no error: the trailing-semicolon error is
\* in the list exactly when the main SQL body ends with a semicolon,
\* whitespace aside, whatever the block ends with, and the block is
\* compiled with its semicolon.
C22_BlockSemicolonIsNotFlagged ==
    phase = "done" =>
        \A j \in 1..Len(definitions) :
            LET file == definitions[j].sqlx[1]
            IN /\ Len(semicolonErrors) =
                      (IF hasTrailingSemicolon(bodyOf(file)) THEN 1 ELSE 0)
               /\ compiledGraph[j].preOps \o compiledGraph[j].postOps
                      = <<operationsOf(file)>>

\* the block of the test: pre_operations { 1;\n }, no error
C22_Witness ==
    /\ phase = "done"
    /\ Len(definitions) = 1
    /\ bodyOf(definitions[1].sqlx[1]) = <<"1">>
    /\ compiledGraph[1].preOps = <<(<<"\n", "1", ";">>)>>
    /\ graphErrors = <<>>

----------------------------------------------------------------------------
(* Projects with one SQLX file whose comments and strings hold keywords,
   braces and quotes *)

\* a block comment with a keyword, a brace and a quote in it; a line comment
\* with a brace and a quote; a string with a keyword, a brace and the start
\* of a comment; a string with an escaped quote before a brace; a
\* triple-quoted string with a quote, a brace and the start of a comment; a
\* backtick segment with a brace; plain text
ScanPieces ==
    {<<"/", "*", "pre_operations", "{", DoubleQuote, "*", "/">>,
     <<"-", "-", "}", SingleQuote, "\n">>,
     <<DoubleQuote, "js", "{", "-", "-", DoubleQuote>>,
     <<SingleQuote, Backslash, SingleQuote, "}", SingleQuote>>,
     <<DoubleQuote, DoubleQuote, DoubleQuote, DoubleQuote, "}", "/", "*",
       DoubleQuote, DoubleQuote, DoubleQuote>>,
     <<Backtick, "{", Backtick>>,
     <<"x">>}

ScanBodies == {flattened(pieces) : pieces \in listsOf(ScanPieces, MaxPieces)}

ScannedFiles ==
    {ConfigBlock \o body \o <<keyword, "{">> \o inner \o <<"}">> :
        body \in ScanBodies, inner \in ScanPieces,
        keyword \in {"pre_operations", "post_operations"}}

ScannedConfigs ==
    {[ActionConfig("table", "", "file", FALSE, <<>>, <<>>, FALSE)
         EXCEPT !.sqlx = Present(file), !.origin = "sqlx"] : file \in ScannedFiles}

InitScan == InitWith({WorkflowSettings("", "", "")})

NextScan ==
    \/ /\ ~isDefined("file")
       /\ \E config \in ScannedConfigs : Register(config)
    \/ Compile

SpecScan == InitScan /\ [][NextScan]_vars

\* the scan of a file from its start
traceOf(text) == scanTrace(text, 1, ScanState("normal", "", 0, <<>>, NoBlocks))

\* the characters at this position are what ends the state
endsAt(text, at, lex) ==
    IF lex = "line-comment" THEN text[at] = "\n"
    ELSE IF lex = "block-comment"
    THEN at < Len(text) /\ text[at] = "*" /\ text[at + 1] = "/"
    ELSE IF lex = "single" THEN text[at] = SingleQuote
    ELSE IF lex = "double" THEN text[at] = DoubleQuote
    ELSE IF lex = "backtick" THEN text[at] = Backtick
    ELSE at + 2 <= Len(text) /\ \A k \in at..(at + 2) : text[k] = DoubleQuote

----------------------------------------------------------------------------
(* Projects whose actions come through the JS API, actions.yaml and SQLX
   files, with and without hermetic: true *)

\* publish(name, {type}), operate(name) and assert(name) of the JS API; the
\* operation of actions.yaml; tables with the assertions shorthand; and
\* assertions, operations and tables configured with hermetic: true
HermeticConfigs ==
    {[ActionConfig(kind, "", name, FALSE, <<>>, <<>>, FALSE) EXCEPT !.origin = "js"] :
        kind \in {"table", "view", "incremental", "operation", "assertion"},
        name \in {"name", "other"}}
    \cup {[ActionConfig("operation", "", name, FALSE, <<>>, <<>>, FALSE)
              EXCEPT !.origin = "yaml"] : name \in {"name", "other"}}
    \cup {[ActionConfig("table", "", name, FALSE, <<>>, <<>>, TRUE)
              EXCEPT !.origin = "sqlx", !.uniqueKeys = 1] : name \in {"name", "other"}}
    \cup {[ActionConfig(kind, "", name, FALSE, <<>>, <<>>, FALSE)
              EXCEPT !.origin = origin, !.hermetic = TRUE] :
             kind \in {"table", "operation", "assertion"},
             name \in {"name", "other"}, origin \in {"yaml", "sqlx"}}

InitHermetic ==
    InitWith({WorkflowSettings("", "", ""), WorkflowSettings("", "suffix", ""),
              WorkflowSettings("", "", "prefix")})

NextHermetic ==
    \/ \E config \in HermeticConfigs : isFresh(config) /\ Register(config)
    \/ Compile

SpecHermetic == InitHermetic /\ [][NextHermetic]_vars

\* the action of the graph is an assertion or was configured with
\* hermetic: true
isHermeticByTheRule(i) ==
    \/ compiledGraph[i].kind = "assertion"
    \/ \E j \in 1..Len(definitions) :
           builderIndex(j) = i /\ definitions[j].hermetic

----------------------------------------------------------------------------
(* Projects whose actions refer to each other, registered in any order *)

\* publish("A").dependencies("B"), publish("B").dependencies("A"), each with
\* or without a ref to C that includes its assertions, and C, a table with a
\* rowConditions assertion that may depend on A
PhasedConfigs ==
    {ActionConfig("table", "", pair[1], FALSE,
                  IF depends THEN <<Dependency(pair[2], "unset")>> ELSE <<>>,
                  calls, FALSE) :
        pair \in {<<"A", "B">>, <<"B", "A">>}, depends \in BOOLEAN,
        calls \in {<<>>, <<InlineCall("ref", "C", "true")>>}}
    \cup {ActionConfig("table", "", "C", FALSE, deps, <<>>, TRUE) :
             deps \in {<<>>, <<Dependency("A", "unset")>>}}

InitPhases == InitWith({WorkflowSettings("", "", ""), WorkflowSettings("", "", "prefix")})

NextPhases ==
    \/ \E config \in PhasedConfigs : isFresh(config) /\ Register(config)
    \/ Compile

SpecPhases == InitPhases /\ [][NextPhases]_vars

\* the errors of name resolution and of the validation of the graph
LinkingMessages ==
    {"Missing dependency detected", "Could not resolve", "Ambiguous Action name",
     "Duplicate action name detected", "Duplicate canonical target detected",
     "Circular dependency detected in chain"}

\* the name of the dependency an error is about
dependencyNameOf(e) ==
    CHOOSE name \in {"A", "B", "C"} :
        e.dependency \in {stringifyDependency(Dependency(name, flag)) :
                              flag \in BOOLEAN}
                        \cup {stringifyResolvable(Dependency(name, flag)) :
                                  flag \in {"unset", "true", "false"}}

\* the names a definition refers to, by dependencies and by ref
namesReferredTo(d) ==
    {d.dependencyTargets[k].name : k \in 1..Len(d.dependencyTargets)}
        \cup {d.contextable[k].resolvable.name : k \in 1..Len(d.contextable)}

\* the definition at position m is referred to by the one at position j and
\* is resolved: its target is among the dependency targets of j, with the
\* targets of its assertions when the reference includes them
isLinked(j, m) ==
    LET from == compiledGraph[builderIndex(j)]
        to   == builderIndex(m)
    IN /\ compiledGraph[to].target \in Range(from.dependencyTargets)
       /\ \A k \in 1..Len(definitions[j].contextable) :
              definitions[j].contextable[k].resolvable.name = definitions[m].name
                  => \A i \in 1..Len(compiledGraph) :
                         compiledGraph[i].parentAction = compiledGraph[to].target
                             => compiledGraph[i].target \in Range(from.dependencyTargets)

\* C25: registration comes first: definitions are registered only while
\* nothing has been compiled, until then no reference has been resolved and
\* no error of name resolution or of graph validation has been raised, and
\* the graph is produced in a step that registers nothing; and in the
\* returned graph a reference to an action of the project is resolved to
\* that action's target whether the action was registered before or after
\* the one that refers to it.
C25_RegistrationPrecedesLinking ==
    /\ [][/\ definitions' /= definitions =>
                 (phase = "build" /\ phase' = "build" /\ compiledGraph' = <<>>)
          /\ compiledGraph' /= compiledGraph =>
                 (phase' = "done" /\ definitions' = definitions /\ actions' = actions)
          /\ phase' = "build" =>
                 \A e \in Range(graphErrors') : e.message \notin LinkingMessages]_vars
    /\ [](phase = "done" =>
             \A j \in 1..Len(definitions) : \A m \in 1..Len(definitions) :
                 definitions[m].name \in namesReferredTo(definitions[j])
                     => /\ isLinked(j, m)
                        /\ \A e \in Range(graphErrors) :
                               e.message \in {"Missing dependency detected",
                                              "Could not resolve"}
                                   => ~isDefined(dependencyNameOf(e)))

\* publish("A").dependencies("B") with a ref to C, registered before B and
\* before C: A depends on B, C and the assertion of C, and the cycle of A
\* and B is found
C25_Witness ==
    /\ phase = "done"
    /\ Len(definitions) = 3
    /\ definitions[1].name = "A" /\ definitions[2].name = "B"
    /\ definitions[2].dependencyTargets /= <<>>
    /\ definitions[3].name = "C"
    /\ Len(compiledGraph[1].dependencyTargets) = 3
    /\ compiledGraph[1].dependencyTargets[1] = compiledGraph[2].target
    /\ compiledGraph[1].dependencyTargets[2] = compiledGraph[3].target
    /\ compiledGraph[1].dependencyTargets[3] = compiledGraph[4].target
    /\ compiledGraph[4].parentAction = compiledGraph[3].target
    /\ Len(graphErrors) = 1
    /\ graphErrors[1].message = "Circular dependency detected in chain"

----------------------------------------------------------------------------
(* Projects whose files are processed in every order *)

\* e.sqlx, a view that may depend on file; file.sqlx, whose SQL resolves or
\* refs e or refs g; and g, a table with a rowConditions assertion that may
\* depend on e, on itself or on an action the project lacks
OrderedConfigs ==
    {ActionConfig("view", "", "e", FALSE, deps, <<>>, FALSE) :
        deps \in {<<>>, <<Dependency("file", "unset")>>}}
    \cup {ActionConfig("operation", "", "file", FALSE, <<>>, <<call>>, FALSE) :
             call \in {InlineCall("resolve", "e", "unset"),
                       InlineCall("ref", "e", "unset"),
                       InlineCall("ref", "g", "true")}}
    \cup {ActionConfig("table", "", "g", FALSE, <<Dependency(name, "unset")>>,
                       <<>>, TRUE) : name \in {"e", "g", "missing"}}

InitOrder ==
    InitWith({WorkflowSettings("", "", ""), WorkflowSettings("", "suffix", ""),
              WorkflowSettings("", "", "prefix")})

NextOrder ==
    \/ \E config \in OrderedConfigs : isFresh(config) /\ Register(config)
    \/ Compile

SpecOrder == InitOrder /\ [][NextOrder]_vars

RECURSIVE registeredFrom(_)
\* the actions and errors that registering these definitions in this order
\* leaves
registeredFrom(configs) ==
    IF Len(configs) = 0 THEN [actions |-> <<>>, errors |-> <<>>]
    ELSE LET before == registeredFrom(SubSeq(configs, 1, Len(configs) - 1))
             config == configs[Len(configs)]
             built  == calledOn(construct(config, projectConfig), config.calls)
         IN [actions |-> before.actions \o <<built.action>>
                             \o builtInAssertions(config, built.action, projectConfig),
             errors  |-> before.errors \o validateTarget(config) \o built.errors]

\* the graph and the errors that compiling these definitions in this order
\* gives
linkedFrom(configs) ==
    LET registered == registeredFrom(configs)
        compiled   == compileActions(registered.actions, 1,
                                     [protos |-> <<>>, errors |-> <<>>])
        qualified  == fullyQualifyDependencies(compiled.protos, 1,
                                               [protos |-> <<>>, errors |-> <<>>])
    IN [graph  |-> qualified.protos,
        errors |-> registered.errors \o compiled.errors \o qualified.errors
                       \o checkTargetsAreUnique(qualified.protos, 1)
                       \o checkCircularity(qualified.protos)
                       \o checkDefaultLocation(projectConfig)]

\* the definitions of the project in every order
reorderings ==
    {[k \in 1..Len(definitions) |-> definitions[order[k]]] :
        order \in {p \in withoutRepeats(SeqsUpTo(1..Len(definitions), Len(definitions))) :
                      Len(p) = Len(definitions)}}

\* the set of dependency targets of each action of a graph, by the action's
\* target
dependencySets(graph) ==
    {<<graph[i].target, Range(graph[i].dependencyTargets)>> : i \in 1..Len(graph)}

\* the errors other than the one of the circular dependency
otherErrors(errors) ==
    {e \in Range(errors) : e.message /= "Circular dependency detected in chain"}

\* the errors of the circular dependency
circularErrors(errors) ==
    {e \in Range(errors) : e.message = "Circular dependency detected in chain"}

----------------------------------------------------------------------------
(* Projects whose publish calls give BigQuery options *)

\* the options one at a time
OneOption ==
    {[NoBigQueryOptions EXCEPT ![option] = TRUE] :
        option \in {"partitionBy", "clusterBy", "partitionExpirationDays",
                    "requirePartitionFilter"}}

\* the publish calls of the suite: views with an option views lack,
\* materialized or not; a table with materialized; tables with
\* partitionExpirationDays or requirePartitionFilter and no partitionBy;
\* partitioned tables with an option given twice
InvalidOptionConfigs ==
    {[ActionConfig("view", "", "name", FALSE, <<>>, <<>>, FALSE)
         EXCEPT !.bigquery = options, !.materialized = materialized] :
        options \in OneOption, materialized \in BOOLEAN}
    \cup {[ActionConfig("table", "", "name", FALSE, <<>>, <<>>, FALSE)
              EXCEPT !.materialized = TRUE,
                     !.unverified = Mismatch("materialized", "unexpected")]}
    \cup {[ActionConfig("table", "", "name", FALSE, <<>>, <<>>, FALSE)
              EXCEPT !.bigquery = options] :
             options \in {[NoBigQueryOptions EXCEPT !.partitionExpirationDays = TRUE],
                          [NoBigQueryOptions EXCEPT !.requirePartitionFilter = TRUE],
                          [NoBigQueryOptions EXCEPT !.partitionBy = TRUE,
                                                    !.partitionExpirationDays = TRUE,
                                                    !.additionalExpirationDays = TRUE],
                          [NoBigQueryOptions EXCEPT !.partitionBy = TRUE,
                                                    !.requirePartitionFilter = TRUE,
                                                    !.additionalPartitionFilter = TRUE]}}

\* definitions/operation.sqlx, and publish calls whose options are valid
ValidOptionConfigs ==
    {[ActionConfig("operation", "", "operation", FALSE, <<>>, <<>>, FALSE)
         EXCEPT !.origin = "sqlx"],
     [ActionConfig("view", "", "view", FALSE, <<>>, <<>>, FALSE)
         EXCEPT !.materialized = TRUE],
     [ActionConfig("table", "", "table", FALSE, <<>>, <<>>, FALSE)
         EXCEPT !.bigquery = [NoBigQueryOptions EXCEPT !.partitionBy = TRUE,
                                                       !.clusterBy = TRUE,
                                                       !.partitionExpirationDays = TRUE,
                                                       !.requirePartitionFilter = TRUE]]}

InitOptions == InitWith({WorkflowSettings("", "", "")})

NextOptions ==
    \/ \E config \in ValidOptionConfigs : isFresh(config) /\ Register(config)
    \/ \E config \in InvalidOptionConfigs : Register(config)
    \/ Compile

SpecOptions == InitOptions /\ [][NextOptions]_vars

\* the option of a view config that is set
optionOf(d) ==
    CHOOSE option \in {"partitionBy", "clusterBy", "partitionExpirationDays",
                       "requirePartitionFilter"} : d.bigquery[option]

\* the error the suite expects for a publish call
expectedError(d) ==
    IF d.kind = "view"
    THEN "Unexpected property \"" \o optionOf(d)
             \o "\" in BigQuery view config. Supported properties are: [\"labels\",\"additionalOptions\"]"
    ELSE IF d.materialized
    THEN "Unexpected property \"materialized\", or property value type is incorrect"
    ELSE IF ~d.bigquery.partitionBy
    THEN "requirePartitionFilter/partitionExpirationDays are not valid for non partitioned BigQuery tables"
    ELSE IF d.bigquery.additionalExpirationDays
    THEN "partitionExpirationDays has been declared twice"
    ELSE "requirePartitionFilter has been declared twice"

\* the publish calls of the project whose options are invalid
invalidDefinitions == SelectSeq(definitions, LAMBDA d : d \in InvalidOptionConfigs)

\* C27: a publish call with an invalid BigQuery option set never aborts the
\* compilation: nothing is thrown, and the graph is returned with the valid
\* actions of the project and with one error for each such call, the one
\* that describes its violation, and no other error.
C27_InvalidOptionsAreRecoverable ==
    /\ thrown = "" /\ phase /= "thrown"
    /\ phase = "done" =>
           /\ [k \in 1..Len(graphErrors) |-> graphErrors[k].message]
                  = [k \in 1..Len(invalidDefinitions) |->
                        expectedError(invalidDefinitions[k])]
           /\ [k \in 1..Len(compiledGraph) |-> compiledGraph[k].canonicalTarget.name]
                  = [k \in 1..Len(SelectSeq(definitions,
                                            LAMBDA d : d \in ValidOptionConfigs)) |->
                        SelectSeq(definitions,
                                  LAMBDA d : d \in ValidOptionConfigs)[k].name]

\* definitions/operation.sqlx and a publish call of a materialized view
\* with requirePartitionFilter: the graph holds the operation and the one
\* error
C27_Witness ==
    /\ phase = "done"
    /\ Len(definitions) = 2
    /\ definitions[1].name = "operation"
    /\ definitions[2].kind = "view" /\ definitions[2].materialized
    /\ definitions[2].bigquery.requirePartitionFilter
    /\ Len(compiledGraph) = 1
    /\ Len(graphErrors) = 1
    /\ graphErrors[1].message =
           "Unexpected property \"requirePartitionFilter\" in BigQuery view config. Supported properties are: [\"labels\",\"additionalOptions\"]"

----------------------------------------------------------------------------
(* Projects of actions.yaml whose dependency targets may name actions the
   project lacks *)

\* the dependency targets of the entries: on the declaration, on the table
\* and on an action that is not there, by name or fully qualified
EdgeSites ==
    {Dependency(name, "unset") : name \in {"declaration", "table", "gone"}}
    \cup {Dependency("table", "true")}
    \cup {Resolvable("defaultProject", "defaultDataset", name, "unset") :
             name \in {"table", "gone"}}

\* a declaration, a table with a rowConditions assertion, and a notebook and
\* an operation with dependency targets
EdgeConfigs ==
    {[ActionConfig("declaration", "", "declaration", FALSE, <<>>, <<>>, FALSE)
         EXCEPT !.origin = "yaml"]}
    \cup {[ActionConfig("table", "", "table", FALSE, deps, <<>>, TRUE)
              EXCEPT !.origin = "yaml"] :
             deps \in {<<>>, <<Dependency("declaration", "unset")>>,
                       <<Dependency("gone", "unset")>>}}
    \cup {[ActionConfig("notebook", "", "notebook", FALSE, deps, <<>>, FALSE)
              EXCEPT !.origin = "yaml"] :
             deps \in withoutRepeats(SeqsUpTo(EdgeSites, MaxSites))}
    \cup {[ActionConfig("operation", "", "operation", FALSE, deps, <<>>, FALSE)
              EXCEPT !.origin = "yaml"] :
             deps \in {<<Dependency("table", "unset")>>,
                       <<Dependency("notebook", "unset")>>}}

InitEdges == InitWith({WorkflowSettings("", "", ""),
                       WorkflowSettings("", "suffix", "prefix")})

NextEdges ==
    \/ \E name \in {"declaration", "table", "notebook", "operation"} :
           /\ ~isDefined(name)
           /\ \E config \in {c \in EdgeConfigs : c.name = name} : Register(config)
    \/ Compile

SpecEdges == InitEdges /\ [][NextEdges]_vars

\* the effective targets of the actions of the returned graph
targetsOfGraph == {compiledGraph[i].target : i \in 1..Len(compiledGraph)}

\* the dependency targets of definition j that name an action of the project
resolvedSites(j) ==
    SelectSeq(definitions[j].dependencyTargets, LAMBDA site : isDefined(site.name))

\* C28: in every returned graph, with or without errors, every entry of the
\* dependencyTargets of every action and every parentAction is the
\* effective target of an action of the graph; a dependency target that
\* names no action of the project is reported and adds no entry, so that
\* the entries of an action are the targets its resolved dependency targets
\* stand for and the assertions they bring.
C28_NoDanglingEdges ==
    phase = "done" =>
        /\ \A i \in 1..Len(compiledGraph) :
               /\ Range(compiledGraph[i].dependencyTargets) \subseteq targetsOfGraph
               /\ compiledGraph[i].parentAction /= NoTarget
                      => compiledGraph[i].parentAction \in targetsOfGraph
        /\ \A j \in 1..Len(definitions) :
               LET proto == compiledGraph[builderIndex(j)]
               IN /\ definitions[j].kind /= "declaration" =>
                         {t.name : t \in Range(proto.dependencyTargets)}
                             \cap {targetOf(s.name).name : s \in Range(resolvedSites(j))}
                           = {targetOf(s.name).name : s \in Range(resolvedSites(j))}
                  /\ \A s \in Range(definitions[j].dependencyTargets) :
                         ~isDefined(s.name) =>
                             \E e \in Range(graphErrors) :
                                 /\ e.message = "Missing dependency detected"
                                 /\ e.action = targetAsReadableString(proto.target)
        /\ graphErrors = <<>> =>
               \A j \in 1..Len(definitions) :
                   \A s \in Range(definitions[j].dependencyTargets) : isDefined(s.name)

\* a notebook that depends on the table and on an action the project lacks,
\* under a suffix and a prefix: its only entry is the target of the table,
\* and the missing dependency is reported
C28_Witness ==
    /\ phase = "done"
    /\ projectConfig.namePrefix = "prefix"
    /\ Len(definitions) = 2
    /\ definitions[1].kind = "notebook"
    /\ definitions[1].dependencyTargets =
           <<Dependency("gone", "unset"),
             Resolvable("defaultProject", "defaultDataset", "table", "unset")>>
    /\ definitions[2].name = "table"
    /\ compiledGraph[1].dependencyTargets = <<compiledGraph[2].target>>
    /\ compiledGraph[2].target.name = "prefix_table"
    /\ compiledGraph[3].parentAction = compiledGraph[2].target
    /\ Len(graphErrors) = 1
    /\ graphErrors[1].message = "Missing dependency detected"

----------------------------------------------------------------------------
(* Projects whose notebooks are given their contents by ipynb *)

\* the file of the notebook: without cells to strip, or with outputs
NotebookFiles ==
    {EmptyNotebook,
     NotebookJson(Present(<<Cell("code", <<"print('hi')">>, Present(<<"hi">>))>>), "4")}

\* what ipynb is given: a notebook whose cell has outputs, one without
\* cells, and one without the cells field
GivenContents ==
    {NotebookJson(Present(<<Cell("markdown", <<"# Some title">>,
                                 Present(<<"something">>))>>), "4"),
     NotebookJson(Present(<<>>), "5"),
     NotebookJson(Absent, "4")}

\* the calls made on the notebook after notebook(...)
NotebookCalls ==
    {BuilderCall("ipynb", contents) : contents \in GivenContents}
    \cup {BuilderCall("dependencies", Dependency("table", "unset"))}

\* notebook({name, filename, tags, disabled}) followed by up to MaxCalls
\* calls, and a table
CalledConfigs ==
    {[ActionConfig("notebook", "", "notebook", FALSE, <<>>, <<>>, FALSE)
         EXCEPT !.notebook = file, !.calls = calls, !.tags = tags,
                !.disabled = disabled] :
        file \in NotebookFiles, calls \in SeqsUpTo(NotebookCalls, MaxCalls),
        tags \in {<<>>, <<"tag1">>}, disabled \in BOOLEAN}
    \cup {ActionConfig("table", "", "table", FALSE, <<>>, <<>>, FALSE)}

InitIpynb == InitWith({WorkflowSettings("", "", ""), WorkflowSettings("", "", "prefix")})

NextIpynb ==
    \/ \E name \in {"notebook", "table"} :
           /\ ~isDefined(name)
           /\ \E config \in {c \in CalledConfigs : c.name = name} : Register(config)
    \/ Compile

SpecIpynb == InitIpynb /\ [][NextIpynb]_vars

\* the contents the calls of ipynb gave, in order
contentsGiven(d) ==
    LET given == SelectSeq(d.calls, LAMBDA c : c.call = "ipynb")
    IN [k \in 1..Len(given) |-> given[k].argument]

\* the definitions with the calls of ipynb left out
withoutIpynb ==
    [j \in 1..Len(definitions) |->
        [definitions[j] EXCEPT !.calls = SelectSeq(@, LAMBDA c : c.call /= "ipynb")]]

\* C29: the notebookContents of every notebook of the returned graph is the
\* JSON text of what the last call of ipynb was given, as it was given,
\* outputs included and the cells field missing if so, or, without such a
\* call, of the file with the outputs of its cells emptied; and the graph
\* and its errors are otherwise what they are without the calls of ipynb.
C29_IpynbSetsTheContentsOnly ==
    phase = "done" =>
        /\ \A j \in 1..Len(definitions) :
               definitions[j].kind = "notebook" =>
                   LET d == definitions[j]
                       p == compiledGraph[builderIndex(j)]
                   IN /\ contentsGiven(d) = <<>> =>
                             \E compiled \in Notebooks \cup NotebookFiles :
                                 /\ compiled.cells /= Absent
                                 /\ compiled.nbformat = d.notebook.nbformat
                                 /\ isStripped(compiled.cells[1], d.notebook.cells[1])
                                 /\ p.notebookContents = stringify(compiled)
                      /\ contentsGiven(d) /= <<>> =>
                             p.notebookContents =
                                 stringify(contentsGiven(d)[Len(contentsGiven(d))])
        /\ Len(linkedFrom(withoutIpynb).graph) = Len(compiledGraph)
        /\ \A i \in 1..Len(compiledGraph) :
               [linkedFrom(withoutIpynb).graph[i] EXCEPT
                   !.notebookContents = compiledGraph[i].notebookContents]
                   = compiledGraph[i]
        /\ linkedFrom(withoutIpynb).errors = graphErrors

\* a notebook with a tag, over a file whose cell has outputs, made to
\* depend on the table and then given contents whose cell has outputs: the
\* contents are those given, outputs and all
C29_Witness ==
    /\ phase = "done"
    /\ graphErrors = <<>>
    /\ Len(definitions) = 2
    /\ definitions[1].name = "table"
    /\ definitions[2].notebook /= EmptyNotebook
    /\ Len(definitions[2].calls) = 2
    /\ definitions[2].calls[1].call = "dependencies"
    /\ definitions[2].calls[2].call = "ipynb"
    /\ compiledGraph[2].notebookContents =
           "{\"cells\":[{\"cell_type\":\"markdown\",\"source\":[\"# Some title\"],\"outputs\":[\"something\"]}],\"nbformat\":4}"
    /\ compiledGraph[2].dependencyTargets = <<compiledGraph[1].target>>
    /\ compiledGraph[2].tags = <<"tag1">>
    /\ compiledGraph[2].fileName = "definitions/notebook.ipynb"

----------------------------------------------------------------------------
(* Projects whose notebooks are named after their files *)

\* the JSON of the file: without the cells field, with no cells, with a cell
FileContents ==
    {NotebookJson(Absent, "4"), EmptyNotebook,
     NotebookJson(Present(<<Cell("code", <<"print('hi')">>, Present(<<"hi">>))>>), "4")}

\* notebooks of actions.yaml and of the JS API, with a name or with a
\* filename only, and a table
NamelessConfigs ==
    {[ActionConfig("notebook", "", naming[1], FALSE, <<>>, <<>>, FALSE)
         EXCEPT !.filename = FilePath(naming[2], "ipynb"), !.notebook = contents,
                !.origin = origin] :
        naming \in {<<"", "notebook">>, <<"", "other">>, <<"name", "notebook">>},
        contents \in FileContents, origin \in {"yaml", "js"}}
    \cup {ActionConfig("table", "", "table", FALSE, <<>>, <<>>, FALSE)}

InitNameless == InitWith({WorkflowSettings("", "", ""), WorkflowSettings("", "", "prefix")})

NextNameless ==
    \/ \E config \in NamelessConfigs : isFresh(named(config)) /\ Register(config)
    \/ Compile

SpecNameless == InitNameless /\ [][NextNameless]_vars

\* the message for a notebook file without the cells field
cellsNotPresent(d) ==
    IF d.filename.base = "notebook"
    THEN "Notebook at definitions/notebook.ipynb is invalid: cells field not present"
    ELSE "Notebook at definitions/other.ipynb is invalid: cells field not present"

\* the notebooks among the definitions
notebooksDefined == {j \in 1..Len(definitions) : definitions[j].kind = "notebook"}

====
